---- MODULE Spec2Model ----
(***************************************************************************)
(* FinanceTracker: report aggregation, period resolution and insight       *)
(* rules.  The model follows the last revision of the Reports component    *)
(* (which aggregates the list returned by GET /api/transactions in the     *)
(* browser) and the two report controllers of the backend (MySQL and       *)
(* MongoDB revisions).  It also covers the transaction routes of both     *)
(* revisions, the queries of one weekly report request interleaved with    *)
(* writes, and the two revisions of the Dashboard component.               *)
(*                                                                         *)
(* Dates are handled at calendar-day granularity: a JS Date is the number  *)
(* of days since 1970-01-01.  The server clock is taken to be UTC; the     *)
(* browser is in UTC or west of it, without daylight saving, and new       *)
(* Date() is taken at an hour where the local and the UTC date agree.      *)
(* A date string "YYYY-MM-DD" is the tuple <<y, m, d>>,                    *)
(* "YYYY-MM" is <<y, m>> and "YYYY" is <<y>>; substring(0, 7) and          *)
(* substring(0, 4) are prefixes of that tuple.  Amounts are integers.      *)
(***************************************************************************)
EXTENDS Integers, Sequences, FiniteSets, TLC

VARIABLES
  store,       \* the transactions collection, in insertion order
  req,         \* the last request / call that was served
  resp,        \* its response
  today,       \* the calendar day new Date() returns
  utcOffset,   \* the browser's time zone: hours local time is ahead of UTC
  reportType,  \* Reports component: useState('monthly')
  currentPeriod, \* Reports component: useState('')
  calls,       \* Reports component: the fetches awaited (fetchReports, fetchPreviousPeriodData)
  loading,     \* Reports component: useState(true)
  error,       \* Reports component: an error message is set
  customStartDate, \* Reports component: useState('')
  customEndDate,   \* Reports component: useState('')
  reportData,  \* Reports component: the report on display
  previousPeriodData, \* Reports component: the comparison report
  insights,    \* the value of generateInsights() for the state on display
  nextId,      \* the id the store gives the next transaction
  weeklyQuery, \* the getWeeklyReports request being served, between its queries
  dashboardTransactions, \* Dashboard: the state `transactions`, useState([])
  allTransactions,     \* filtering Dashboard: useState([])
  displayTransactions, \* filtering Dashboard: useState([])
  activeFilters,       \* filtering Dashboard: useState({}), as a set of <<key, value>>
  editingTransaction,  \* both Dashboards: useState(null)
  editFormData,        \* both Dashboards: useState({})
  handlers     \* both Dashboards: the handler calls waiting for a response

vars == <<store, req, resp, today, utcOffset, reportType, currentPeriod, calls, loading, error,
          customStartDate, customEndDate, reportData, previousPeriodData, insights,
          nextId, weeklyQuery, dashboardTransactions, allTransactions,
          displayTransactions, activeFilters, editingTransaction, editFormData, handlers>>

\* the state outside the report pages
Idle == [pc |-> "idle"]
NoTransaction == [null |-> TRUE]
NotEditing == 0
dashVars == <<dashboardTransactions, allTransactions, displayTransactions, activeFilters,
              editingTransaction, editFormData, handlers>>
InitDashboard ==
  /\ dashboardTransactions = <<>>
  /\ allTransactions = <<>>
  /\ displayTransactions = <<>>
  /\ activeFilters = {}
  /\ editingTransaction = NotEditing
  /\ editFormData = NoTransaction
  /\ handlers = {}
restVars == <<nextId, weeklyQuery, dashVars>>
InitRest == nextId = 1 /\ weeklyQuery = Idle /\ InitDashboard

(***************************************************************************)
(* Bounds                                                                  *)
(***************************************************************************)
MaxTx == 2

(***************************************************************************)
(* ECMAScript Date arithmetic (days since the epoch)                       *)
(***************************************************************************)
DayFromYear(y) ==
  365 * (y - 1970) + ((y - 1969) \div 4) - ((y - 1901) \div 100)
    + ((y - 1601) \div 400)

DaysInYear(y) == DayFromYear(y + 1) - DayFromYear(y)

\* days of the year before month index mn (0 = January)
DaysBeforeMonth(mn, leap) ==
  LET base == <<0, 31, 59, 90, 120, 151, 181, 212, 243, 273, 304, 334>>
  IN base[mn + 1] + (IF leap /\ mn >= 2 THEN 1 ELSE 0)

\* new Date(year, monthIndex, date): month and date overflow are normalised
MakeDay(year, monthIndex, date) ==
  LET ym == year + (monthIndex \div 12)
      mn == monthIndex % 12
  IN DayFromYear(ym) + DaysBeforeMonth(mn, DaysInYear(ym) = 366) + date - 1

\* the year of day t (t >= 0): the largest y with DayFromYear(y) <= t
YearFromDay(t) ==
  CHOOSE y \in (1970 + (t \div 366))..(1970 + (t \div 365)) :
    DayFromYear(y) <= t /\ t < DayFromYear(y + 1)

\* month index (0..11) of day t
MonthFromDay(t) ==
  LET y == YearFromDay(t)
      leap == DaysInYear(y) = 366
      dy == t - DayFromYear(y)
  IN CHOOSE mn \in 0..11 :
       /\ DaysBeforeMonth(mn, leap) <= dy
       /\ (mn = 11 \/ dy < DaysBeforeMonth(mn + 1, leap))

DateFromDay(t) ==
  LET y == YearFromDay(t)
  IN t - DayFromYear(y) - DaysBeforeMonth(MonthFromDay(t), DaysInYear(y) = 366) + 1

\* Date.prototype.getDay(): 0 = Sunday ... 6 = Saturday
WeekDay(t) == (t + 4) % 7

\* date.toISOString().split('T')[0]
ISODate(t) == <<YearFromDay(t), MonthFromDay(t) + 1, DateFromDay(t)>>

\* new Date("YYYY-MM-DD"), new Date("YYYY-MM"), new Date("YYYY")
ParseDate(s) ==
  MakeDay(s[1], (IF Len(s) >= 2 THEN s[2] ELSE 1) - 1, IF Len(s) >= 3 THEN s[3] ELSE 1)

\* string.substring(0, 7) and string.substring(0, 4) of an ISO date
Prefix(s, n) == SubSeq(s, 1, n)

(***************************************************************************)
(* Sequences                                                               *)
(***************************************************************************)
RECURSIVE InsertByKey(_, _)
\* s holds <<key, value>> pairs in non-decreasing key order; x goes in front
\* of the first pair with a greater key, so equal keys keep their order
\* (Array.prototype.sort is stable)
InsertByKey(x, s) ==
  IF s = <<>> THEN <<x>>
  ELSE IF x[1] < s[1][1] THEN <<x>> \o s
  ELSE <<s[1]>> \o InsertByKey(x, Tail(s))

RECURSIVE SortPairs(_)
SortPairs(s) ==
  IF s = <<>> THEN <<>>
  ELSE InsertByKey(s[Len(s)], SortPairs(SubSeq(s, 1, Len(s) - 1)))

\* the elements of s in non-decreasing order of key[i], stable
SortByKey(s, key) ==
  LET sorted == SortPairs([i \in 1..Len(s) |-> <<key[i], s[i]>>])
  IN [i \in 1..Len(s) |-> sorted[i][2]]

RECURSIVE SumAmount(_)
SumAmount(txs) == IF txs = <<>> THEN 0 ELSE Head(txs).amount + SumAmount(Tail(txs))

OfType(txs, ty) == SelectSeq(txs, LAMBDA t : t.type = ty)

(***************************************************************************)
(* The transaction store (MongoDB revision of the transaction controller)  *)
(***************************************************************************)
Types == {"income", "expense"}
\* Monday 2025-12-29 starts a week that ends on Sunday 2026-01-04
TxDays == { ParseDate(<<2025, 12, 28>>), ParseDate(<<2025, 12, 29>>),
            ParseDate(<<2026, 1, 4>>) }
Amounts == {1, 2}
TypeCategories == { <<"income", "Salary">>, <<"expense", "Food">>, <<"expense", "Rent">> }

\* request bodies of POST /api/transactions; the last two are bodies the
\* validation refuses
CreateBodies ==
  { [type |-> tc[1], category |-> tc[2], amount |-> a, date |-> d] :
      tc \in TypeCategories, a \in Amounts, d \in TxDays }
  \cup { [type |-> "transfer", category |-> "Food", amount |-> 1,
          date |-> ParseDate(<<2025, 12, 29>>)],
         [type |-> "expense", category |-> "Food", amount |-> 0,
          date |-> ParseDate(<<2025, 12, 29>>)] }

\* createTransaction: 400 on a bad type or a non-positive amount, else the
\* document is saved and 201 is answered
createTransactionStatus(body) ==
  IF ~(body.type \in {"income", "expense"}) THEN 400
  ELSE IF body.amount <= 0 THEN 400
  ELSE 201

createTransactionStore(st, body) ==
  IF createTransactionStatus(body) = 201
  THEN Append(st, [type |-> body.type, category |-> body.category,
                   amount |-> body.amount, date |-> body.date])
  ELSE st

\* getTransactions: Transaction.find({userId}).sort({date: -1})
getTransactions(st) == SortByKey(st, [i \in 1..Len(st) |-> 0 - st[i].date])

(***************************************************************************)
(* dateUtils (Reports component, last revision)                            *)
(***************************************************************************)
\* a string no Date can be parsed from
Malformed == <<-1>>

IsDigits4(y) == y \in 0..9999
\* /^\d{4}$/, /^\d{4}-\d{2}$/ and /^\d{4}-\d{2}-\d{2}$/
MatchesYear(s) == Len(s) = 1 /\ IsDigits4(s[1])
MatchesYearMonth(s) == Len(s) = 2 /\ IsDigits4(s[1])
MatchesYearMonthDay(s) == Len(s) = 3 /\ IsDigits4(s[1])

\* !isNaN(new Date(s).getTime())
IsValidDate(s) ==
  /\ Len(s) \in 1..3
  /\ IsDigits4(s[1])
  /\ Len(s) >= 2 => s[2] \in 1..12
  /\ Len(s) = 3 => (s[3] >= 1 /\ MakeDay(s[1], s[2] - 1, s[3]) < MakeDay(s[1], s[2], 1))

getCurrentMonth(now) == Prefix(ISODate(now), 2)

getCurrentYear(now) == Prefix(ISODate(now), 1)

\* A date string "YYYY-MM-DD" parses to midnight UTC.  getDate(), getDay(),
\* getMonth() and getFullYear() read that instant in local time - the day
\* before, west of Greenwich - setDate() keeps the local time of day, and
\* toISOString() reads the result in UTC again.
LocalDay(t) == IF utcOffset < 0 THEN t - 1 ELSE t
UTCDay(l) == IF utcOffset < 0 THEN l + 1 ELSE l

\* date.getDate() - day + (day === 0 ? -6 : 1), handed to setDate
MondayOf(t) == t - WeekDay(t) + (IF WeekDay(t) = 0 THEN -6 ELSE 1)

getCurrentWeekMonday(now) == ISODate(MondayOf(now))

formatMonth(dateString, now) ==
  IF dateString = <<>> THEN getCurrentMonth(now)
  ELSE IF MatchesYearMonth(dateString) THEN dateString
  ELSE IF IsValidDate(dateString) THEN Prefix(ISODate(LocalDay(ParseDate(dateString))), 2)
  ELSE getCurrentMonth(now)

formatYear(dateString, now) ==
  IF dateString = <<>> THEN getCurrentYear(now)
  ELSE IF MatchesYear(dateString) THEN dateString
  ELSE IF IsValidDate(dateString) THEN Prefix(ISODate(LocalDay(ParseDate(dateString))), 1)
  ELSE getCurrentYear(now)

formatWeek(dateString, now) ==
  IF dateString = <<>> THEN getCurrentWeekMonday(now)
  ELSE IF MatchesYearMonthDay(dateString) /\ IsValidDate(dateString) THEN dateString
  ELSE IF IsValidDate(dateString)
       THEN ISODate(UTCDay(MondayOf(LocalDay(ParseDate(dateString)))))
  ELSE getCurrentWeekMonday(now)

\* formatWeek handed a Date object (navigatePeriod): no pattern matches it
formatWeekOfDate(t) == ISODate(UTCDay(MondayOf(LocalDay(t))))

(***************************************************************************)
(* reportsAPI (Reports component, last revision): the report is computed   *)
(* in the browser from response.data of GET /api/transactions              *)
(***************************************************************************)
\* the income branch taken without looking at transaction.type
TotalsOfUntyped(txs) ==
  [income |-> SumAmount(txs), expense |-> SumAmount(OfType(txs, "expense"))]

\* reduce over the transactions into { income, expense }
TotalsOf(txs) ==
  [income |-> SumAmount(OfType(txs, "income")), expense |-> SumAmount(OfType(txs, "expense"))]

RECURSIVE CategoryReduce(_, _)
\* acc.find(item => item.category === transaction.category): add, else push
CategoryReduce(acc, txs) ==
  IF txs = <<>> THEN acc
  ELSE LET t == Head(txs)
           found == {i \in 1..Len(acc) : acc[i].category = t.category}
       IN CategoryReduce(
            IF found # {}
            THEN LET i == CHOOSE i \in found : \A j \in found : i <= j
                 IN [acc EXCEPT ![i].amount = @ + t.amount]
            ELSE Append(acc, [category |-> t.category, amount |-> t.amount]),
            Tail(txs))

\* the groups left in first-seen order
ExpensesByCategoryUnsorted(txs) == CategoryReduce(<<>>, OfType(txs, "expense"))

\* .sort((a, b) => b.amount - a.amount)
sortByAmountDesc(groups) ==
  SortByKey(groups, [i \in 1..Len(groups) |-> 0 - groups[i].amount])

\* .filter(t => t.type === 'expense').reduce(...).sort(...)
ExpensesByCategory(txs) == sortByAmountDesc(CategoryReduce(<<>>, OfType(txs, "expense")))

RECURSIVE BucketReduce(_, _, _)
\* the reduce behind dailyBreakdown (n = 3, key date.split('T')[0]) and
\* monthlyBreakdown (n = 2, key date.substring(0, 7))
BucketReduce(acc, txs, n) ==
  IF txs = <<>> THEN acc
  ELSE LET t == Head(txs)
           key == Prefix(ISODate(t.date), n)
           found == {i \in 1..Len(acc) : acc[i].key = key}
       IN BucketReduce(
            IF found # {}
            THEN LET i == CHOOSE i \in found : \A j \in found : i <= j
                 IN IF t.type = "income"
                    THEN [acc EXCEPT ![i].income = @ + t.amount]
                    ELSE [acc EXCEPT ![i].expense = @ + t.amount]
            ELSE Append(acc, [key |-> key,
                              income |-> IF t.type = "income" THEN t.amount ELSE 0,
                              expense |-> IF t.type = "expense" THEN t.amount ELSE 0]),
            Tail(txs), n)

\* an ISO date or month as a number that orders as the string does
StrKey(s) == s[1] * 10000 + s[2] * 100 + (IF Len(s) >= 3 THEN s[3] ELSE 0)

\* .sort((a, b) => a.date.localeCompare(b.date))
sortByKeyString(buckets) ==
  SortByKey(buckets, [i \in 1..Len(buckets) |-> StrKey(buckets[i].key)])

Breakdown(txs, n) == sortByKeyString(BucketReduce(<<>>, txs, n))

dailyEntries(b) ==
  [i \in 1..Len(b) |-> [date |-> b[i].key, income |-> b[i].income, expense |-> b[i].expense]]

DailyBreakdown(txs) == dailyEntries(Breakdown(txs, 3))

monthlyEntries(b) ==
  [i \in 1..Len(b) |-> [month |-> b[i].key, income |-> b[i].income, expense |-> b[i].expense]]

MonthlyBreakdown(txs) == monthlyEntries(Breakdown(txs, 2))

ZeroTotals == [income |-> 0, expense |-> 0]

\* the filter left out: every transaction fetched is taken
MonthTransactionsUnfiltered(formattedMonth, transactions) == transactions

\* transactions.filter(t => t.date.substring(0, 7) === formattedMonth)
MonthTransactions(formattedMonth, transactions) ==
  SelectSeq(transactions, LAMBDA t : Prefix(ISODate(t.date), 2) = formattedMonth)

\* the end day compared with < instead of <=
InRangeEndExcluded(transactions, startDate, endDate) ==
  SelectSeq(transactions, LAMBDA t : t.date >= startDate /\ t.date < endDate)

\* transactions.filter(t => transactionDate >= startDate && transactionDate <= endDate)
InRange(transactions, startDate, endDate) ==
  SelectSeq(transactions, LAMBDA t : t.date >= startDate /\ t.date <= endDate)

\* the report built from the transactions the filter kept
monthData(monthTransactions) ==
  IF Len(monthTransactions) = 0
  THEN [success |-> TRUE,
        data |-> [hasTransactions |-> FALSE, totals |-> ZeroTotals,
                  monthlyData |-> ZeroTotals, expensesByCategory |-> <<>>,
                  dailyBreakdown |-> <<>>]]
  ELSE [success |-> TRUE,
        data |-> [hasTransactions |-> TRUE, totals |-> TotalsOf(monthTransactions),
                  monthlyData |-> TotalsOf(monthTransactions),
                  expensesByCategory |-> ExpensesByCategory(monthTransactions),
                  dailyBreakdown |-> DailyBreakdown(monthTransactions)]]

reportsAPI_getReports(month, transactions, now) ==
  monthData(MonthTransactions(formatMonth(month, now), transactions))

weekData(weekTransactions) ==
  IF Len(weekTransactions) = 0
  THEN [success |-> TRUE,
        data |-> [hasTransactions |-> FALSE, totals |-> ZeroTotals,
                  expensesByCategory |-> <<>>, dailyBreakdown |-> <<>>]]
  ELSE [success |-> TRUE,
        data |-> [hasTransactions |-> TRUE, totals |-> TotalsOf(weekTransactions),
                  expensesByCategory |-> ExpensesByCategory(weekTransactions),
                  dailyBreakdown |-> DailyBreakdown(weekTransactions)]]

\* endDate.setDate(startDate.getDate() + 6)
weekFrom(startDate, transactions) == weekData(InRange(transactions, startDate, startDate + 6))

reportsAPI_getWeeklyReports(weekStart, transactions, now) ==
  weekFrom(ParseDate(formatWeek(weekStart, now)), transactions)

\* transactions.filter(t => t.date.substring(0, 4) === formattedYear)
YearTransactions(formattedYear, transactions) ==
  SelectSeq(transactions, LAMBDA t : Prefix(ISODate(t.date), 1) = formattedYear)

yearData(yearTransactions) ==
  IF Len(yearTransactions) = 0
  THEN [success |-> TRUE,
        data |-> [hasTransactions |-> FALSE, yearlyTotals |-> ZeroTotals,
                  categoryBreakdown |-> <<>>, monthlyBreakdown |-> <<>>]]
  ELSE [success |-> TRUE,
        data |-> [hasTransactions |-> TRUE, yearlyTotals |-> TotalsOf(yearTransactions),
                  categoryBreakdown |-> ExpensesByCategory(yearTransactions),
                  monthlyBreakdown |-> MonthlyBreakdown(yearTransactions)]]

reportsAPI_getMonthlyReports(year, transactions, now) ==
  yearData(YearTransactions(formatYear(year, now), transactions))

rangeData(rangeTransactions, startDate, endDate) ==
  IF Len(rangeTransactions) = 0
  THEN [success |-> TRUE,
        data |-> [hasTransactions |-> FALSE, totals |-> ZeroTotals,
                  expensesByCategory |-> <<>>, dailyBreakdown |-> <<>>]]
  ELSE [success |-> TRUE,
        data |-> [hasTransactions |-> TRUE, totals |-> TotalsOf(rangeTransactions),
                  expensesByCategory |-> ExpensesByCategory(rangeTransactions),
                  dailyBreakdown |-> DailyBreakdown(rangeTransactions),
                  dateRange |-> [start |-> startDate, end |-> endDate]]]

\* end.setHours(23, 59, 59, 999): the whole end day is inside
reportsAPI_getCustomRangeReports(startDate, endDate, transactions) ==
  rangeData(InRange(transactions, ParseDate(startDate), ParseDate(endDate)),
            startDate, endDate)

(***************************************************************************)
(* Report controllers of the backend.  A handler is given the rows of the  *)
(* user and yields the set of responses it can send: rows of equal total   *)
(* come out of ORDER BY total DESC / $sort { total: -1 } in any order.     *)
(***************************************************************************)
RECURSIVE SeqsOf(_)
\* the enumerations of a finite set
SeqsOf(S) ==
  IF S = {} THEN {<<>>}
  ELSE UNION { { <<x>> \o r : r \in SeqsOf(S \ {x}) } : x \in S }

Where(rows, Cond(_)) == SelectSeq(rows, Cond)

\* SELECT type1, SUM(amount) ... GROUP BY type1: one row per type present
TotalsByType(rows) ==
  [ty \in {rows[i].type : i \in 1..Len(rows)} |-> SumAmount(OfType(rows, ty))]

\* SELECT category, SUM(amount) ... WHERE type1 = 'expense' GROUP BY category
\* ORDER BY total DESC, mapped to { category, amount }
CategoryTotalsDesc(rows) ==
  LET exp == OfType(rows, "expense")
      groups == { [category |-> c,
                   amount |-> SumAmount(SelectSeq(exp, LAMBDA t : t.category = c))] :
                  c \in {exp[i].category : i \in 1..Len(exp)} }
  IN { q \in SeqsOf(groups) : \A i \in 1..(Len(q) - 1) : q[i].amount >= q[i + 1].amount }

\* GROUP BY dateToday, type1 ORDER BY dateToday, folded into one object per
\* date with income and expense preset to 0; Object.values keeps date order
sortedDays(days) == CHOOSE q \in SeqsOf(days) : \A i \in 1..(Len(q) - 1) : q[i] < q[i + 1]

dayEntry(d, sums) ==
  [date |-> ISODate(d),
   income |-> IF "income" \in DOMAIN sums THEN sums["income"] ELSE 0,
   expense |-> IF "expense" \in DOMAIN sums THEN sums["expense"] ELSE 0]

dayEntries(rows, ordered) ==
  [i \in 1..Len(ordered) |->
     dayEntry(ordered[i], TotalsByType(SelectSeq(rows, LAMBDA t : t.date = ordered[i])))]

DailyRows(rows) == dayEntries(rows, sortedDays({rows[i].date : i \in 1..Len(rows)}))

\* const formatted = { income: 0, expense: 0 }; rows.forEach(item => formatted[item.type] = total)
WithZeroDefaults(sums) ==
  [ty \in {"income", "expense"} \cup DOMAIN sums |->
     IF ty \in DOMAIN sums THEN sums[ty] ELSE 0]

BadRequest == [status |-> 400, body |-> [success |-> FALSE]]

\* the catch block: weekEnd.toISOString() throws on an Invalid Date
ServerError == [status |-> 500, body |-> [success |-> FALSE]]

Ok(data) == [status |-> 200, body |-> [success |-> TRUE, data |-> data]]

\* WHERE DATE_FORMAT(dateToday, '%Y-%m') = ?
RowsOfMonth(month, rows) == Where(rows, LAMBDA t : Prefix(ISODate(t.date), 2) = month)

\* WHERE dateToday >= ? AND dateToday <= ? / date: { $gte: start, $lte: end }
RowsBetween(rows, start, end) == Where(rows, LAMBDA t : t.date >= start /\ t.date <= end)

monthlyDataOf(month, zeroed) ==
  [month |-> month, income |-> zeroed["income"], expense |-> zeroed["expense"]]

\* formattedTotals starts as {}: a type without rows gets no key
mysqlMonthBody(month, inMonth) ==
  IF Len(inMonth) = 0
  THEN { Ok([totals |-> ZeroTotals, expensesByCategory |-> <<>>,
             monthlyData |-> [month |-> month, income |-> 0, expense |-> 0],
             hasTransactions |-> FALSE]) }
  ELSE { Ok([totals |-> TotalsByType(inMonth),
             expensesByCategory |-> cats,
             monthlyData |-> monthlyDataOf(month, WithZeroDefaults(TotalsByType(inMonth))),
             hasTransactions |-> TRUE]) : cats \in CategoryTotalsDesc(inMonth) }

\* reportController.js (MySQL): GET /api/reports?month=YYYY-MM
mysql_getReports(month, rows) ==
  IF month = <<>> \/ ~MatchesYearMonth(month) THEN {BadRequest}
  ELSE mysqlMonthBody(month, RowsOfMonth(month, rows))

weekBody(week, weekEnd, inWeek) ==
  IF Len(inWeek) = 0
  THEN { Ok([weekRange |-> [start |-> week, end |-> ISODate(weekEnd)],
             totals |-> ZeroTotals,
             expensesByCategory |-> <<>>, dailyBreakdown |-> <<>>,
             hasTransactions |-> FALSE]) }
  ELSE { Ok([weekRange |-> [start |-> week, end |-> ISODate(weekEnd)],
             totals |-> WithZeroDefaults(TotalsByType(inWeek)),
             expensesByCategory |-> cats,
             dailyBreakdown |-> DailyRows(inWeek),
             hasTransactions |-> TRUE]) : cats \in CategoryTotalsDesc(inWeek) }

\* weekEnd.setDate(weekEnd.getDate() + 6)
weekOf(week, weekStart, rows) ==
  weekBody(week, weekStart + 6, RowsBetween(rows, weekStart, weekStart + 6))

\* reportController.js (MySQL): GET /api/reports/weekly?week=YYYY-MM-DD
mysql_getWeeklyReports(week, rows) ==
  IF week = <<>> \/ ~MatchesYearMonthDay(week) THEN {BadRequest}
  ELSE IF ~IsValidDate(week) THEN {ServerError}
  ELSE weekOf(week, ParseDate(week), rows)

\* reportController.js (MySQL): GET /api/reports/overview
mysql_getReportsOverview(rows) ==
  { Ok([totals |-> TotalsByType(rows),              \* formattedTotals starts as {}
        expensesByCategory |-> cats]) : cats \in CategoryTotalsDesc(rows) }

mongoMonthBody(month, inMonth) ==
  IF Len(inMonth) = 0
  THEN { Ok([totals |-> ZeroTotals, expensesByCategory |-> <<>>,
             monthlyData |-> [month |-> month, income |-> 0, expense |-> 0],
             hasTransactions |-> FALSE]) }
  ELSE { Ok([totals |-> WithZeroDefaults(TotalsByType(inMonth)),
             expensesByCategory |-> cats,
             monthlyData |-> monthlyDataOf(month, WithZeroDefaults(TotalsByType(inMonth))),
             hasTransactions |-> TRUE]) : cats \in CategoryTotalsDesc(inMonth) }

\* the end taken as day 1 of the next month instead of day 0
monthStartEndNextFirst(year, monthNum) ==
  << MakeDay(year, monthNum - 1, 1), MakeDay(year, monthNum, 1) >>

\* startDate = new Date(year, monthNum - 1, 1);
\* endDate = new Date(year, monthNum, 0, 23, 59, 59, 999)
monthStartEnd(year, monthNum) ==
  << MakeDay(year, monthNum - 1, 1), MakeDay(year, monthNum, 0) >>

mongoMonth(month, range, docs) == mongoMonthBody(month, RowsBetween(docs, range[1], range[2]))

\* report controller (MongoDB): GET /api/reports?month=YYYY-MM
mongo_getReports(month, docs) ==
  IF month = <<>> \/ ~MatchesYearMonth(month) THEN {BadRequest}
  ELSE mongoMonth(month, monthStartEnd(month[1], month[2]), docs)

\* report controller (MongoDB): GET /api/reports/weekly?week=YYYY-MM-DD
\* (weekEnd.setHours(23, 59, 59, 999): the whole last day is inside)
mongo_getWeeklyReports(week, docs) ==
  IF week = <<>> \/ ~MatchesYearMonthDay(week) THEN {BadRequest}
  ELSE IF ~IsValidDate(week) THEN {ServerError}
  ELSE weekOf(week, ParseDate(week), docs)

(***************************************************************************)
(* Aggregation: transactions are created, reports are asked for            *)
(***************************************************************************)
NoRequest == [op |-> "none"]
NoResponse == [status |-> 0]
Null == [null |-> TRUE]

AggToday == ParseDate(<<2026, 1, 7>>)

MonthSpecs == { <<2025, 12>>, <<2026, 1>> }
WeekSpecs == { <<2025, 12, 22>>, <<2025, 12, 29>> }
YearSpecs == { <<2025>>, <<2026>> }
CustomRanges == { <<<<2025, 12, 29>>, <<2026, 1, 3>>>>,
                  <<<<2025, 12, 28>>, <<2025, 12, 30>>>>,
                  <<<<2025, 12, 30>>, <<2026, 1, 4>>>> }

ReportOps == { "reportsAPI.getReports", "reportsAPI.getWeeklyReports",
               "reportsAPI.getMonthlyReports", "reportsAPI.getCustomRangeReports",
               "mysql.getReports", "mysql.getWeeklyReports", "mysql.getReportsOverview",
               "mongo.getReports", "mongo.getWeeklyReports" }

\* A behaviour fills the store and then asks for one report: a report call
\* reads the store and nothing of the calls before it.
Settled == req.op \notin ReportOps

InitAgg ==
  /\ store = <<>>
  /\ req = NoRequest
  /\ resp = NoResponse
  /\ today = AggToday
  /\ utcOffset = 0
  /\ reportType = "monthly"
  /\ currentPeriod = <<>>
  /\ calls = {}
  /\ loading = TRUE
  /\ error = FALSE
  /\ customStartDate = <<>>
  /\ customEndDate = <<>>
  /\ reportData = Null
  /\ previousPeriodData = Null
  /\ insights = <<>>
  /\ InitRest

aggOther == <<today, utcOffset, reportType, currentPeriod, calls, loading, error, customStartDate,
              customEndDate, reportData, previousPeriodData, insights, restVars>>

\* POST /api/transactions
CreateTransaction(body) ==
  /\ Len(store) < MaxTx
  /\ store' = createTransactionStore(store, body)
  /\ req' = [op |-> "createTransaction", body |-> body]
  /\ resp' = [status |-> createTransactionStatus(body)]
  /\ UNCHANGED aggOther

\* reportsAPI.getReports(month)
FetchMonthReport(month) ==
  /\ req' = [op |-> "reportsAPI.getReports", arg |-> month]
  /\ resp' = reportsAPI_getReports(month, getTransactions(store), today)
  /\ UNCHANGED <<store, aggOther>>

\* reportsAPI.getWeeklyReports(weekStart)
FetchWeekReport(week) ==
  /\ req' = [op |-> "reportsAPI.getWeeklyReports", arg |-> week]
  /\ resp' = reportsAPI_getWeeklyReports(week, getTransactions(store), today)
  /\ UNCHANGED <<store, aggOther>>

\* reportsAPI.getMonthlyReports(year)
FetchYearReport(year) ==
  /\ req' = [op |-> "reportsAPI.getMonthlyReports", arg |-> year]
  /\ resp' = reportsAPI_getMonthlyReports(year, getTransactions(store), today)
  /\ UNCHANGED <<store, aggOther>>

\* reportsAPI.getCustomRangeReports(startDate, endDate)
FetchCustomReport(range) ==
  /\ req' = [op |-> "reportsAPI.getCustomRangeReports", start |-> range[1], end |-> range[2]]
  /\ resp' = reportsAPI_getCustomRangeReports(range[1], range[2], getTransactions(store))
  /\ UNCHANGED <<store, aggOther>>

MysqlGetReports(month) ==
  /\ req' = [op |-> "mysql.getReports", arg |-> month]
  /\ resp' \in mysql_getReports(month, store)
  /\ UNCHANGED <<store, aggOther>>

MysqlGetWeeklyReports(week) ==
  /\ req' = [op |-> "mysql.getWeeklyReports", arg |-> week]
  /\ resp' \in mysql_getWeeklyReports(week, store)
  /\ UNCHANGED <<store, aggOther>>

MysqlGetReportsOverview ==
  /\ req' = [op |-> "mysql.getReportsOverview"]
  /\ resp' \in mysql_getReportsOverview(store)
  /\ UNCHANGED <<store, aggOther>>

MongoGetReports(month) ==
  /\ req' = [op |-> "mongo.getReports", arg |-> month]
  /\ resp' \in mongo_getReports(month, store)
  /\ UNCHANGED <<store, aggOther>>

MongoGetWeeklyReports(week) ==
  /\ req' = [op |-> "mongo.getWeeklyReports", arg |-> week]
  /\ resp' \in mongo_getWeeklyReports(week, store)
  /\ UNCHANGED <<store, aggOther>>

NextAgg ==
  \/ Settled /\ \E body \in CreateBodies : CreateTransaction(body)
  \/ Settled /\ \E month \in MonthSpecs : FetchMonthReport(month)
  \/ Settled /\ \E week \in WeekSpecs : FetchWeekReport(week)
  \/ Settled /\ \E year \in YearSpecs : FetchYearReport(year)
  \/ Settled /\ \E range \in CustomRanges : FetchCustomReport(range)
  \/ Settled /\ \E month \in MonthSpecs \cup {Malformed} : MysqlGetReports(month)
  \/ Settled /\ \E week \in WeekSpecs \cup {Malformed} : MysqlGetWeeklyReports(week)
  \/ Settled /\ MysqlGetReportsOverview
  \/ Settled /\ \E month \in MonthSpecs \cup {Malformed} : MongoGetReports(month)
  \/ Settled /\ \E week \in WeekSpecs \cup {Malformed} : MongoGetWeeklyReports(week)

SpecAgg == InitAgg /\ [][NextAgg]_vars

(***************************************************************************)
(* Reports component: insights                                             *)
(***************************************************************************)
\* ((num / den) * 100).toFixed(1) for den > 0, in tenths of a percent: the
\* nearest tenth, and the sign kept.  The amounts drawn below never put the
\* quotient half way between two tenths.
\* A division by 0 gives Infinity, -Infinity or NaN, which toFixed passes on:
\* they are kept apart from every finite percentage.
NonFinite(num) == IF num > 0 THEN 1000000000 ELSE IF num < 0 THEN 0 - 1000000000 ELSE 2000000000

IsFiniteNumber(x) == x \notin {NonFinite(1), NonFinite(0 - 1), NonFinite(0)}

toFixed1(num, den) ==
  LET n == IF num < 0 THEN 0 - num ELSE num
      r == (n * 2000 + den) \div (2 * den)
  IN IF den = 0 THEN NonFinite(num)
     ELSE IF num < 0 THEN 0 - r ELSE r

Abs(x) == IF x < 0 THEN 0 - x ELSE x

\* reportData.monthlyData?.income || 0
MonthlyDataOr0(data) ==
  IF "monthlyData" \in DOMAIN data
  THEN [income |-> data.monthlyData.income, expense |-> data.monthlyData.expense]
  ELSE ZeroTotals

getTotals(data, type) ==
  IF data = Null THEN ZeroTotals
  ELSE IF type = "yearly"
       THEN (IF "yearlyTotals" \in DOMAIN data THEN data.yearlyTotals ELSE ZeroTotals)
  ELSE IF type \in {"weekly", "custom"}
       THEN (IF "totals" \in DOMAIN data THEN data.totals ELSE ZeroTotals)
  ELSE IF "totals" \in DOMAIN data THEN data.totals ELSE MonthlyDataOr0(data)

getPreviousTotals(data, type) ==
  IF data = Null THEN ZeroTotals
  ELSE IF type = "yearly"
       THEN (IF "yearlyTotals" \in DOMAIN data THEN data.yearlyTotals ELSE ZeroTotals)
  ELSE IF type = "weekly"
       THEN (IF "totals" \in DOMAIN data THEN data.totals ELSE ZeroTotals)
  ELSE IF "totals" \in DOMAIN data THEN data.totals ELSE MonthlyDataOr0(data)

\* reportData.hasTransactions, undefined counting as false
HasTransactions(data) ==
  data # Null /\ "hasTransactions" \in DOMAIN data /\ data.hasTransactions

\* reportType === 'yearly' ? reportData.categoryBreakdown : reportData.expensesByCategory
expenseCategoriesOf(data, type) ==
  LET field == IF type = "yearly" THEN "categoryBreakdown" ELSE "expensesByCategory"
  IN IF field \in DOMAIN data THEN data[field] ELSE <<>>

\* rule 1: the share of the top category; message carries the percentage
TopCategoryInsight(data, type) ==
  LET totals == getTotals(data, type)
      expenseCategories == expenseCategoriesOf(data, type)
      percentage == toFixed1(expenseCategories[1].amount, totals.expense)
  IN IF Len(expenseCategories) > 0 /\ totals.expense > 0
     THEN << [type |-> "warning", title |-> "Highest Spending Category",
              message |-> percentage,
              suggestion |-> IF percentage > 400
                             THEN "Consider reviewing and reducing expenses in this category."
                             ELSE "This seems reasonable for your spending pattern."] >>
     ELSE <<>>

\* the comparison with the guard on the previous expense total left out:
\* a previous total of 0 divides to Infinity, which is above every threshold
expenseChangePercentUnguarded(expenseChange, prevExpense) ==
  IF prevExpense > 0 THEN toFixed1(expenseChange, prevExpense)
  ELSE IF expenseChange = 0 THEN 0 ELSE 1000000

\* prevTotals.expense > 0 ? ((expenseChange / prevTotals.expense) * 100).toFixed(1) : 0
expenseChangePercent(expenseChange, prevExpense) ==
  IF prevExpense > 0 THEN toFixed1(expenseChange, prevExpense) ELSE 0

\* rule 2: the change of the expense total against the previous period
SpendingChangeInsight(data, previous, type) ==
  LET totals == getTotals(data, type)
      prevTotals == getPreviousTotals(previous, type)
      expenseChange == totals.expense - prevTotals.expense
      percent == expenseChangePercent(expenseChange, prevTotals.expense)
  IN IF HasTransactions(previous) /\ Abs(percent) > 100
     THEN << [type |-> IF expenseChange > 0 THEN "warning" ELSE "success",
              title |-> IF expenseChange > 0 THEN "Spending Increased"
                        ELSE "Spending Decreased",
              message |-> Abs(percent),
              suggestion |-> IF expenseChange > 0
                             THEN "Consider reviewing your recent purchases to identify areas for cost reduction."
                             ELSE "Great job on reducing your expenses!"] >>
     ELSE <<>>

\* the savings rate divided out whatever the income total is
savingsRateUnguarded(totals) == toFixed1(totals.income - totals.expense, totals.income)

\* totals.income > 0 ? ((savings / totals.income) * 100).toFixed(1) : 0
savingsRateOf(totals) ==
  IF totals.income > 0 THEN toFixed1(totals.income - totals.expense, totals.income) ELSE 0

\* rule 3: the savings rate
SavingsInsight(data, type) ==
  LET totals == getTotals(data, type)
      savings == totals.income - totals.expense
      savingsRate == savingsRateOf(totals)
  IN IF savings < 0
     THEN << [type |-> "danger", title |-> "Spending Exceeds Income",
              message |-> Abs(savings),
              suggestion |-> "Review your expenses and consider creating a budget to avoid overspending."] >>
     ELSE IF savingsRate < 100
     THEN << [type |-> "warning", title |-> "Low Savings Rate",
              message |-> savingsRate,
              suggestion |-> "Consider increasing your savings rate to at least 20% for better financial health."] >>
     ELSE IF savingsRate > 300
     THEN << [type |-> "success", title |-> "Excellent Savings Rate",
              message |-> savingsRate,
              suggestion |-> "Great financial discipline! Consider investing your savings for long-term growth."] >>
     ELSE <<>>

\* totals.expense > 0 ? ((category.amount / totals.expense) * 100).toFixed(1) : '0.0'
categoryPercentage(amount, expenseTotal) ==
  IF expenseTotal > 0 THEN toFixed1(amount, expenseTotal) ELSE 0

\* the rows of the category breakdown table; no table without categories
categoryTable(data, type) ==
  LET categoryData == IF data = Null THEN <<>> ELSE expenseCategoriesOf(data, type)
  IN [i \in 1..Len(categoryData) |->
        [category |-> categoryData[i].category, amount |-> categoryData[i].amount,
         percentage |-> categoryPercentage(categoryData[i].amount,
                                           getTotals(data, type).expense)]]

\* the rules run without the early return on a report without transactions
generateInsightsUnguarded(data, previous, type) ==
  TopCategoryInsight(data, type) \o SpendingChangeInsight(data, previous, type)
    \o SavingsInsight(data, type)

generateInsights(data, previous, type) ==
  IF ~HasTransactions(data) THEN <<>>
  ELSE TopCategoryInsight(data, type) \o SpendingChangeInsight(data, previous, type)
       \o SavingsInsight(data, type)

(***************************************************************************)
(* Reports component: period state, fetches and their completion           *)
(***************************************************************************)
NavWindow == 60      \* days before `today` the period can be navigated back to

ReportTypes == {"weekly", "monthly", "yearly", "custom"}

\* the first effect: the period a report type starts at
initialPeriod(type, now) ==
  IF type = "weekly" THEN getCurrentWeekMonday(now)
  ELSE IF type = "yearly" THEN getCurrentYear(now)
  ELSE getCurrentMonth(now)

\* the month before computed on the month number alone, the year kept
previousPeriodSameYear(type, period) ==
  IF type = "weekly" THEN ISODate(ParseDate(period) - 7)
  ELSE IF type = "yearly" THEN << period[1] - 1 >>
  ELSE IF Len(period) >= 2
       THEN << period[1], IF period[2] = 1 THEN 12 ELSE period[2] - 1 >>
       ELSE Malformed

\* the period fetchPreviousPeriodData asks for
previousPeriodOf(type, period) ==
  IF type = "weekly" THEN ISODate(ParseDate(period) - 7)
  ELSE IF type = "yearly" THEN << period[1] - 1 >>      \* parseInt(currentPeriod) - 1
  ELSE IF Len(period) >= 2
       THEN Prefix(ISODate(MakeDay(period[1], period[2] - 2, 1)), 2)
       ELSE Malformed                                   \* "NaN-NaN"

\* the reportsAPI call of fetchReports / fetchPreviousPeriodData for a type
reportOf(type, period, transactions, now) ==
  IF type = "weekly" THEN reportsAPI_getWeeklyReports(period, transactions, now)
  ELSE IF type = "yearly" THEN reportsAPI_getMonthlyReports(period, transactions, now)
  ELSE reportsAPI_getReports(period, transactions, now)

\* an awaited fetch, with the values of the render it closes over
Fetch(fn, type, period, startDate, endDate) ==
  [fn |-> fn, reportType |-> type, currentPeriod |-> period,
   customStartDate |-> startDate, customEndDate |-> endDate]

\* the second effect: fetchReports() and fetchPreviousPeriodData()
fetchBoth(type, period, startDate, endDate) ==
  IF period # <<>> /\ type # "custom"
  THEN { Fetch("fetchReports", type, period, startDate, endDate),
         Fetch("fetchPreviousPeriodData", type, period, startDate, endDate) }
  ELSE {}

\* the early return taken for a missing date only
customRangeRejectedIfMissing(type, startDate, endDate) ==
  type = "custom" /\ (startDate = <<>> \/ endDate = <<>>)

\* fetchReports() returns early with an error on a custom range it rejects
customRangeRejected(type, startDate, endDate) ==
  /\ type = "custom"
  /\ \/ startDate = <<>>
     \/ endDate = <<>>
     \/ ParseDate(startDate) > ParseDate(endDate)

\* the value a fetch resolves to
fetchResult(c, transactions, now) ==
  IF c.fn = "fetchPreviousPeriodData"
  THEN reportOf(c.reportType, previousPeriodOf(c.reportType, c.currentPeriod),
                transactions, now)
  ELSE IF c.reportType = "custom"
  THEN reportsAPI_getCustomRangeReports(c.customStartDate, c.customEndDate, transactions)
  ELSE reportOf(c.reportType, c.currentPeriod, transactions, now)

navigateTo(type, period, direction) ==
  LET step == IF direction = "prev" THEN 0 - 1 ELSE 1
  IN IF type = "weekly" THEN formatWeekOfDate(ParseDate(period) + 7 * step)
     ELSE IF type = "yearly" THEN << period[1] + step >>
     ELSE Prefix(ISODate(MakeDay(period[1], period[2] - 1 + step, 1)), 2)

\* new Date() carries a time of day: midnight of today is before it
canNavigateNext(type, period, now) ==
  /\ period # <<>>
  /\ IF type = "weekly" THEN ParseDate(period) <= now
     ELSE IF type = "yearly" THEN period[1] < YearFromDay(now)
     ELSE MakeDay(period[1], period[2] - 1, 1)
            < MakeDay(YearFromDay(now), MonthFromDay(now), 1)

\* which of the four returns of the component renders; the user is taken to
\* click once the fetches of the click before have resolved
View ==
  IF calls # {} THEN "waiting"
  ELSE IF loading THEN "loading"
  ELSE IF error THEN "error"
  ELSE IF ~HasTransactions(reportData) THEN "nodata"
  ELSE "main"

compOther == <<store, req, resp, today, utcOffset, restVars>>

\* mount: the first effect sets the period, the second fetches for it
Mount ==
  /\ currentPeriod = <<>>
  /\ currentPeriod' = initialPeriod(reportType, today)
  /\ calls' = calls \cup fetchBoth(reportType, currentPeriod', customStartDate, customEndDate)
  /\ loading' = TRUE
  /\ error' = FALSE
  /\ insights' = generateInsights(reportData, previousPeriodData, reportType)
  /\ UNCHANGED <<reportType, reportData, previousPeriodData, customStartDate,
                 customEndDate, compOther>>

\* setReportType(id) and the effects it sets off: the second effect runs
\* once with the period of the old type, and again once the first effect
\* has replaced the period
typeChange(id) ==
  LET fresh == initialPeriod(id, today)
      issued == fetchBoth(id, currentPeriod, customStartDate, customEndDate)
                  \cup fetchBoth(id, fresh, customStartDate, customEndDate)
  IN /\ reportType' = id
     /\ currentPeriod' = fresh
     /\ calls' = calls \cup issued
     /\ error' = IF id # "custom" THEN FALSE ELSE error
     /\ UNCHANGED <<previousPeriodData, customStartDate, customEndDate, compOther>>

\* onClick={() => setReportType(id)}
SetReportType(id) ==
  /\ View = "main"
  /\ id # reportType
  /\ typeChange(id)
  /\ loading' = (id # "custom")
  /\ insights' = generateInsights(reportData, previousPeriodData, id)
  /\ UNCHANGED reportData

\* handleTryDifferentReportType
HandleTryDifferentReportType ==
  LET id == IF reportType = "custom" THEN "monthly" ELSE "weekly"
  IN /\ View = "nodata"
     /\ IF id # reportType THEN typeChange(id)
        ELSE UNCHANGED <<reportType, currentPeriod, calls, error, previousPeriodData,
                         customStartDate, customEndDate, compOther>>
     /\ reportData' = Null
     /\ loading' = TRUE
     /\ insights' = <<>>

\* handleTryDifferentPeriod
HandleTryDifferentPeriod ==
  LET fresh == initialPeriod(reportType, today)
      issued == IF fresh # currentPeriod
                THEN fetchBoth(reportType, fresh, customStartDate, customEndDate)
                ELSE {}
  IN /\ View = "nodata"
     /\ currentPeriod' = fresh
     /\ calls' = calls \cup issued
     /\ error' = IF issued # {} THEN FALSE ELSE error
     /\ reportData' = Null
     /\ loading' = TRUE
     /\ insights' = <<>>
     /\ UNCHANGED <<reportType, previousPeriodData, customStartDate, customEndDate,
                    compOther>>

\* onClick={() => navigatePeriod(direction)}
NavigatePeriod(direction) ==
  LET target == navigateTo(reportType, currentPeriod, direction)
      issued == fetchBoth(reportType, target, customStartDate, customEndDate)
  IN /\ View = "main"
     /\ reportType # "custom"
     /\ direction = "next" => canNavigateNext(reportType, currentPeriod, today)
     /\ direction = "prev" => ParseDate(currentPeriod) >= today - NavWindow
     /\ currentPeriod' = target
     /\ calls' = calls \cup issued
     /\ loading' = TRUE
     /\ error' = FALSE
     /\ UNCHANGED <<reportType, reportData, previousPeriodData, insights,
                    customStartDate, customEndDate, compOther>>

\* the two date inputs of the custom range form, both filled in
SetCustomDates(range) ==
  /\ View = "main" /\ reportType = "custom"
  /\ customStartDate' = range[1]
  /\ customEndDate' = range[2]
  /\ UNCHANGED <<reportType, currentPeriod, calls, loading, error, reportData,
                 previousPeriodData, insights, compOther>>

\* fetchReports() as the click handler of 'Generate Report' and 'Try Again'
fetchReportsClicked ==
  LET c == Fetch("fetchReports", reportType, currentPeriod, customStartDate, customEndDate)
  IN /\ IF customRangeRejected(reportType, customStartDate, customEndDate)
        THEN /\ error' = TRUE
             /\ loading' = FALSE
             /\ UNCHANGED calls
        ELSE /\ calls' = calls \cup {c}
             /\ error' = FALSE
             /\ loading' = TRUE
     /\ UNCHANGED <<reportType, currentPeriod, reportData, previousPeriodData, insights,
                    customStartDate, customEndDate, compOther>>

GenerateCustomReport ==
  /\ View = "main" /\ reportType = "custom"
  /\ customStartDate # <<>> /\ customEndDate # <<>>     \* the button is disabled otherwise
  /\ fetchReportsClicked

TryAgain ==
  /\ View = "error"
  /\ fetchReportsClicked

\* the reportsAPI call a fetch makes
apiRequest(c) ==
  LET period == IF c.fn = "fetchPreviousPeriodData"
                THEN previousPeriodOf(c.reportType, c.currentPeriod)
                ELSE c.currentPeriod
  IN IF c.reportType = "custom" /\ c.fn = "fetchReports"
     THEN [op |-> "reportsAPI.getCustomRangeReports",
           start |-> c.customStartDate, end |-> c.customEndDate]
     ELSE [op |-> IF c.reportType = "weekly" THEN "reportsAPI.getWeeklyReports"
                  ELSE IF c.reportType = "yearly" THEN "reportsAPI.getMonthlyReports"
                  ELSE "reportsAPI.getReports",
           arg |-> period]

\* a fetchReports call resolves: setReportData, then setLoading(false)
FetchReportsDone(c) ==
  /\ c \in calls /\ c.fn = "fetchReports"
  /\ calls' = calls \ {c}
  /\ req' = apiRequest(c)
  /\ resp' = fetchResult(c, getTransactions(store), today)
  /\ reportData' = resp'.data
  /\ loading' = FALSE
  /\ insights' = generateInsights(reportData', previousPeriodData, reportType)
  /\ UNCHANGED <<reportType, currentPeriod, error, previousPeriodData,
                 customStartDate, customEndDate, store, today, utcOffset, restVars>>

\* a fetchPreviousPeriodData call resolves
FetchPreviousPeriodDataDone(c) ==
  /\ c \in calls /\ c.fn = "fetchPreviousPeriodData"
  /\ calls' = calls \ {c}
  /\ req' = apiRequest(c)
  /\ resp' = fetchResult(c, getTransactions(store), today)
  /\ previousPeriodData' = resp'.data
  /\ insights' = generateInsights(reportData, previousPeriodData', reportType)
  /\ UNCHANGED <<reportType, currentPeriod, error, reportData, loading,
                 customStartDate, customEndDate, store, today, utcOffset, restVars>>

\* the request of a fetch fails: fetchReports keeps the report and shows the
\* error, fetchPreviousPeriodData drops the comparison
FetchFailed(c) ==
  /\ c \in calls
  /\ calls' = calls \ {c}
  /\ req' = [op |-> "GET /api/transactions"]
  /\ resp' = ServerError
  /\ IF c.fn = "fetchReports"
     THEN /\ loading' = FALSE
          /\ error' = TRUE
          /\ UNCHANGED <<previousPeriodData, insights>>
     ELSE /\ previousPeriodData' = Null
          /\ insights' = generateInsights(reportData, Null, reportType)
          /\ UNCHANGED <<loading, error>>
  /\ UNCHANGED <<reportType, currentPeriod, reportData, customStartDate,
                 customEndDate, store, today, utcOffset, restVars>>

(***************************************************************************)
(* The Reports page over a store, and the report API called on its own     *)
(***************************************************************************)
\* the time zone of the browser: UTC, and US Eastern standard time
UtcOffsets == {0, 0 - 5}

\* the clock: a Wednesday after a year boundary, a Sunday after a leap February
ReportTodays == { ParseDate(<<2026, 1, 7>>), ParseDate(<<2024, 3, 3>>) }

\* what the user has recorded: income and expense of today, income and
\* expense of eight days ago (the week, the month before)
Ledgers ==
  { [income |-> 100, expense |-> 80,  prevIncome |-> 0,  prevExpense |-> 80, rent |-> 0, fun |-> 0],
    [income |-> 100, expense |-> 95,  prevIncome |-> 10, prevExpense |-> 80, rent |-> 0, fun |-> 0],
    [income |-> 603, expense |-> 181, prevIncome |-> 10, prevExpense |-> 0, rent |-> 0, fun |-> 0],
    [income |-> 0,   expense |-> 181, prevIncome |-> 0,  prevExpense |-> 0, rent |-> 0, fun |-> 0],
    [income |-> 201, expense |-> 181, prevIncome |-> 0,  prevExpense |-> 422, rent |-> 0, fun |-> 0],
    [income |-> 603, expense |-> 422, prevIncome |-> 0,  prevExpense |-> 80, rent |-> 0, fun |-> 0],
    [income |-> 100, expense |-> 0,   prevIncome |-> 0,  prevExpense |-> 80, rent |-> 0, fun |-> 0],
    [income |-> 300, expense |-> 230, prevIncome |-> 0,  prevExpense |-> 209, rent |-> 0, fun |-> 0],
    [income |-> 3000, expense |-> 802, prevIncome |-> 0, prevExpense |-> 0, rent |-> 601, fun |-> 600],
    [income |-> 0,   expense |-> 0,   prevIncome |-> 0,  prevExpense |-> 80, rent |-> 0, fun |-> 0] }

Entry(ty, cat, day, amount) ==
  IF amount > 0 THEN << [type |-> ty, category |-> cat, amount |-> amount, date |-> day] >>
  ELSE <<>>

StoreOf(l, now) ==
  Entry("income", "Salary", now - 8, l.prevIncome)
    \o Entry("expense", "Food", now - 8, l.prevExpense)
    \o Entry("income", "Salary", now, l.income)
    \o Entry("expense", "Food", now, l.expense)
    \o Entry("expense", "Rent", now, l.rent)
    \o Entry("expense", "Fun", now, l.fun)

WeekInputs == { <<>>, Malformed, <<2026, 1>>, <<2026, 1, 5>>, <<2026, 1, 7>>,
                <<2024, 2, 26>>, <<2024, 3, 3>> }
MonthInputs == { <<>>, Malformed, <<2026, 1, 7>>, <<2026, 1>>, <<2025, 12>>, <<2025, 2>>,
                 <<2024, 2>>, <<2024, 4>>, <<2000, 2>>, <<2100, 2>> }

\* a range the form accepts and one it rejects (start after end)
FormRanges == { <<<<2025, 12, 30>>, <<2026, 1, 7>>>>, <<<<2026, 1, 7>>, <<2025, 12, 30>>>> }

InitReports ==
  /\ req = NoRequest
  /\ resp = NoResponse
  /\ reportType = "monthly"
  /\ currentPeriod = <<>>
  /\ calls = {}
  /\ loading = TRUE
  /\ error = FALSE
  /\ customStartDate = <<>>
  /\ customEndDate = <<>>
  /\ reportData = Null
  /\ previousPeriodData = Null
  /\ insights = <<>>
  /\ InitRest

\* periods: the page under either clock, over one ledger
InitPeriod ==
  /\ today \in ReportTodays
  /\ utcOffset \in UtcOffsets
  /\ store = StoreOf([income |-> 100, expense |-> 95, prevIncome |-> 10, prevExpense |-> 80,
                      rent |-> 0, fun |-> 0], today)
  /\ InitReports

\* insights: the page under one clock, over each ledger
InitInsight ==
  /\ today = AggToday
  /\ utcOffset = 0
  /\ \E l \in Ledgers : store = StoreOf(l, today)
  /\ InitReports

\* a report call made on its own reads its argument, the store and the clock
Standalone == currentPeriod = <<>> /\ Settled

NextReports ==
  \/ Mount
  \/ \E id \in ReportTypes : SetReportType(id)
  \/ HandleTryDifferentReportType
  \/ HandleTryDifferentPeriod
  \/ \E direction \in {"prev", "next"} : NavigatePeriod(direction)
  \/ \E range \in FormRanges : SetCustomDates(range)
  \/ GenerateCustomReport
  \/ TryAgain
  \/ \E c \in calls : FetchReportsDone(c)
  \/ \E c \in calls : FetchPreviousPeriodDataDone(c)
  \/ \E c \in calls : FetchFailed(c)
  \/ Standalone /\ \E month \in MonthInputs : FetchMonthReport(month)
  \/ Standalone /\ \E week \in WeekInputs : FetchWeekReport(week)
  \/ Standalone /\ \E month \in MonthInputs : MysqlGetReports(month)
  \/ Standalone /\ \E week \in WeekInputs : MysqlGetWeeklyReports(week)
  \/ Standalone /\ \E month \in MonthInputs : MongoGetReports(month)
  \/ Standalone /\ \E week \in WeekInputs : MongoGetWeeklyReports(week)

SpecPeriod == InitPeriod /\ [][NextReports]_vars

SpecInsight == InitInsight /\ [][NextReports]_vars

(***************************************************************************)
(* What the claims are stated against: the Gregorian calendar counted      *)
(* month by month, and sums over the stored transactions                   *)
(***************************************************************************)
LeapYear(y) == (y % 4 = 0 /\ y % 100 # 0) \/ y % 400 = 0

CalDaysInMonth(y, m) ==
  IF m \in {4, 6, 9, 11} THEN 30
  ELSE IF m = 2 THEN (IF LeapYear(y) THEN 29 ELSE 28)
  ELSE 31

RECURSIVE CalDaysBefore(_, _)
\* the days of year y in the months before month m
CalDaysBefore(y, m) == IF m = 1 THEN 0 ELSE CalDaysBefore(y, m - 1) + CalDaysInMonth(y, m - 1)

\* the day number of the calendar date y-m-d (y >= 1970)
CalDay(y, m, d) ==
  365 * (y - 1970) + Cardinality({yy \in 1970..(y - 1) : LeapYear(yy)})
    + CalDaysBefore(y, m) + d - 1

IsReport == req.op \in ReportOps /\ resp # BadRequest /\ resp # ServerError

FromBrowser == req.op \in { "reportsAPI.getReports", "reportsAPI.getWeeklyReports",
                            "reportsAPI.getMonthlyReports", "reportsAPI.getCustomRangeReports" }

\* the report a call has produced
Report == IF FromBrowser THEN resp.data ELSE resp.body.data

MonthOps == {"reportsAPI.getReports", "mysql.getReports", "mongo.getReports"}
WeekOps == {"reportsAPI.getWeeklyReports", "mysql.getWeeklyReports", "mongo.getWeeklyReports"}

\* first and last day of the interval the request names
IntervalStart ==
  CASE req.op \in MonthOps -> CalDay(req.arg[1], req.arg[2], 1)
    [] req.op \in WeekOps -> CalDay(req.arg[1], req.arg[2], req.arg[3])
    [] req.op = "reportsAPI.getMonthlyReports" -> CalDay(req.arg[1], 1, 1)
    [] req.op = "reportsAPI.getCustomRangeReports" ->
         CalDay(req.start[1], req.start[2], req.start[3])
    [] OTHER -> 0

IntervalEnd ==
  CASE req.op \in MonthOps ->
         CalDay(req.arg[1], req.arg[2], CalDaysInMonth(req.arg[1], req.arg[2]))
    [] req.op \in WeekOps -> CalDay(req.arg[1], req.arg[2], req.arg[3]) + 6
    [] req.op = "reportsAPI.getMonthlyReports" -> CalDay(req.arg[1], 12, 31)
    [] req.op = "reportsAPI.getCustomRangeReports" ->
         CalDay(req.end[1], req.end[2], req.end[3])
    [] OTHER -> CalDay(2100, 1, 1)

\* the stored transactions dated inside the interval
InInterval == SelectSeq(store, LAMBDA t : IntervalStart <= t.date /\ t.date <= IntervalEnd)

ReportTotals == IF "yearlyTotals" \in DOMAIN Report THEN Report.yearlyTotals ELSE Report.totals

\* a total as the component reads it: totals.kind || 0
TotalOr0(kind) == IF kind \in DOMAIN ReportTotals THEN ReportTotals[kind] ELSE 0

ReportCategories ==
  IF "categoryBreakdown" \in DOMAIN Report THEN Report.categoryBreakdown
  ELSE Report.expensesByCategory

HasBreakdown == {"dailyBreakdown", "monthlyBreakdown"} \cap DOMAIN Report # {}

ReportBreakdown ==
  IF "monthlyBreakdown" \in DOMAIN Report THEN Report.monthlyBreakdown
  ELSE Report.dailyBreakdown

RECURSIVE SumField(_, _)
SumField(q, f) == IF q = <<>> THEN 0 ELSE Head(q)[f] + SumField(Tail(q), f)

(***************************************************************************)
(* C1: hasTransactions is true exactly when a stored transaction is dated  *)
(* inside the interval of the request; when none is, the totals are 0 and  *)
(* the breakdowns are empty.                                               *)
(***************************************************************************)
HasTransactionsIffInInterval ==
  (IsReport /\ "hasTransactions" \in DOMAIN Report) =>
    /\ Report.hasTransactions <=> (Len(InInterval) > 0)
    /\ ~Report.hasTransactions =>
         /\ ReportTotals = [income |-> 0, expense |-> 0]
         /\ ReportCategories = <<>>
         /\ HasBreakdown => ReportBreakdown = <<>>

\* a report over an interval that misses every stored transaction
WitnessEmptyInterval ==
  /\ IsReport /\ "hasTransactions" \in DOMAIN Report
  /\ Len(store) > 0
  /\ ~Report.hasTransactions

(***************************************************************************)
(* C2: the category breakdown holds one entry per category of the expense  *)
(* transactions of the interval, with the sum of their amounts, in         *)
(* non-increasing order of amount; its amounts add up to the expense total.*)
(***************************************************************************)
CategoryBreakdownSortedAndComplete ==
  IsReport =>
    LET cats == ReportCategories
        exp == OfType(InInterval, "expense")
    IN /\ \A i \in 1..Len(cats) :
            /\ \E k \in 1..Len(exp) : exp[k].category = cats[i].category
            /\ cats[i].amount =
                 SumAmount(SelectSeq(exp, LAMBDA t : t.category = cats[i].category))
       /\ \A k \in 1..Len(exp) : \E i \in 1..Len(cats) : cats[i].category = exp[k].category
       /\ \A i, j \in 1..Len(cats) : i # j => cats[i].category # cats[j].category
       /\ \A i \in 1..(Len(cats) - 1) : cats[i].amount >= cats[i + 1].amount
       /\ SumField(cats, "amount") = TotalOr0("expense")

\* two expense categories that had to be reordered
WitnessCategoriesReordered ==
  /\ IsReport
  /\ Len(ReportCategories) = 2
  /\ ReportCategories[1].amount > ReportCategories[2].amount
  /\ LET exp == OfType(InInterval, "expense")
     IN Len(exp) = 2 /\ exp[1].amount < exp[2].amount
        /\ getTransactions(store) = store

(***************************************************************************)
(* C3 (as claimed): the sub-period breakdown has one entry per calendar    *)
(* bucket of the interval, empty buckets included: 7 for a week, 12 for a  *)
(* year, end - start + 1 for a custom range.  Stated here for the reports  *)
(* that have transactions (C1 asks for empty breakdowns when none falls    *)
(* inside the interval).                                                   *)
(***************************************************************************)
BreakdownHasEveryBucket ==
  (/\ IsReport /\ HasBreakdown
   /\ req.op \in WeekOps \cup {"reportsAPI.getMonthlyReports",
                                "reportsAPI.getCustomRangeReports"}
   /\ Report.hasTransactions) =>
    /\ Len(ReportBreakdown) =
         IF req.op = "reportsAPI.getMonthlyReports" THEN 12
         ELSE IntervalEnd - IntervalStart + 1
    /\ \A i \in 1..(Len(ReportBreakdown) - 1) :
         IF req.op = "reportsAPI.getMonthlyReports"
         THEN StrKey(ReportBreakdown[i].month) < StrKey(ReportBreakdown[i + 1].month)
         ELSE StrKey(ReportBreakdown[i].date) < StrKey(ReportBreakdown[i + 1].date)

(***************************************************************************)
(* C4: the incomes of the buckets add up to the income total and the       *)
(* expenses of the buckets add up to the expense total.                    *)
(***************************************************************************)
BucketsSumToTotals ==
  (IsReport /\ HasBreakdown) =>
    /\ SumField(ReportBreakdown, "income") = TotalOr0("income")
    /\ SumField(ReportBreakdown, "expense") = TotalOr0("expense")

\* two buckets, income and expense both present
WitnessTwoBuckets ==
  /\ IsReport /\ HasBreakdown
  /\ Len(ReportBreakdown) = 2
  /\ TotalOr0("income") > 0 /\ TotalOr0("expense") > 0

(***************************************************************************)
(* C5: a weekly or custom-range report counts exactly the transactions     *)
(* dated from the start day to the end day, both included.                 *)
(***************************************************************************)
IntervalInclusiveBothEnds ==
  (IsReport /\ req.op \in WeekOps \cup {"reportsAPI.getCustomRangeReports"}) =>
    /\ TotalOr0("income") = SumAmount(OfType(InInterval, "income"))
    /\ TotalOr0("expense") = SumAmount(OfType(InInterval, "expense"))
    /\ Report.hasTransactions <=>
         \E i \in 1..Len(store) : IntervalStart <= store[i].date /\ store[i].date <= IntervalEnd

\* one transaction on the day before the start (left out), one on the end day (counted)
WitnessBoundaryDays ==
  /\ IsReport /\ req.op \in WeekOps \cup {"reportsAPI.getCustomRangeReports"}
  /\ Len(store) = 2
  /\ \E i \in 1..2 : store[i].date = IntervalStart - 1
  /\ \E i \in 1..2 : store[i].date = IntervalEnd
  /\ Report.hasTransactions
  /\ TotalOr0("income") + TotalOr0("expense") < SumAmount(store)

(***************************************************************************)
(* C6 (as claimed): a report with hasTransactions = true carries an income *)
(* and an expense total, 0 for a kind without transactions.                *)
(***************************************************************************)
TotalsCarryBothKinds ==
  (IsReport /\ "hasTransactions" \in DOMAIN Report /\ Report.hasTransactions) =>
    /\ {"income", "expense"} \subseteq DOMAIN ReportTotals
    /\ ReportTotals["income"] = SumAmount(OfType(InInterval, "income"))
    /\ ReportTotals["expense"] = SumAmount(OfType(InInterval, "expense"))

(***************************************************************************)
(* The interval a report request resolves to, read off the handler: the    *)
(* days d such that a store holding one transaction dated d makes the      *)
(* report of the request count it.                                         *)
(***************************************************************************)
Probe(d) == << [type |-> "expense", category |-> "Food", amount |-> 1, date |-> d] >>

SomeCounted(responses) ==
  \E r \in responses : r.status = 200 /\ r.body.data.hasTransactions

Counted(d) ==
  CASE req.op = "reportsAPI.getReports" ->
         reportsAPI_getReports(req.arg, Probe(d), today).data.hasTransactions
    [] req.op = "reportsAPI.getWeeklyReports" ->
         reportsAPI_getWeeklyReports(req.arg, Probe(d), today).data.hasTransactions
    [] req.op = "mysql.getReports" -> SomeCounted(mysql_getReports(req.arg, Probe(d)))
    [] req.op = "mysql.getWeeklyReports" ->
         SomeCounted(mysql_getWeeklyReports(req.arg, Probe(d)))
    [] req.op = "mongo.getReports" -> SomeCounted(mongo_getReports(req.arg, Probe(d)))
    [] req.op = "mongo.getWeeklyReports" ->
         SomeCounted(mongo_getWeeklyReports(req.arg, Probe(d)))
    [] OTHER -> FALSE

\* a request the handler has answered with a report
Accepted == IF FromBrowser THEN resp.success ELSE resp.status = 200

IsMonday(d) == (d - CalDay(2024, 1, 1)) % 7 = 0      \* 2024-01-01 was a Monday

\* the days looked at around a week request: its date, or today when the
\* argument holds no date
WeekWindow ==
  LET a == req.arg
      anchor == IF Len(a) = 3 /\ a[1] >= 1970 THEN CalDay(a[1], a[2], a[3])
                ELSE IF Len(a) = 2 /\ a[1] >= 1970 THEN CalDay(a[1], a[2], 1)
                ELSE today
  IN (anchor - 10)..(anchor + 10) \cup (today - 10)..(today + 10)

WeekDaysCounted == {d \in WeekWindow : Counted(d)}

ValidMonthSpec == Len(req.arg) = 2 /\ req.arg[1] \in 1970..9999 /\ req.arg[2] \in 1..12

\* the days looked at around a month request: from before its first day to
\* after its last, and the same dates of the years next to it
MonthWindow ==
  LET first == CalDay(req.arg[1], req.arg[2], 1)
  IN (first - 3)..(first + 34) \cup {first - 366, first - 365, first + 365, first + 366}

MonthDaysCounted == {d \in MonthWindow : Counted(d)}

(***************************************************************************)
(* C7 (as claimed): every week specifier the weekly report accepts - the   *)
(* initial week, a week reached by navigation, any YYYY-MM-DD date handed  *)
(* to formatWeek / getWeeklyReports - resolves to exactly 7 calendar days  *)
(* of which the first is a Monday.                                         *)
(***************************************************************************)
WeekStartsOnMonday ==
  (req.op \in WeekOps /\ Accepted) =>
    \E s \in WeekDaysCounted : IsMonday(s) /\ WeekDaysCounted = s..(s + 6)

(***************************************************************************)
(* C8: a valid month specifier YYYY-MM resolves to the days from the       *)
(* first to the last calendar day of that month: as many days as the       *)
(* month has (28 to 31), 29 for the February of a leap year.               *)
(***************************************************************************)
MonthIntervalIsCalendarMonth ==
  (req.op \in MonthOps /\ ValidMonthSpec /\ Accepted) =>
    LET y == req.arg[1]
        m == req.arg[2]
        n == Cardinality(MonthDaysCounted)
    IN /\ MonthDaysCounted = CalDay(y, m, 1)..CalDay(y, m, CalDaysInMonth(y, m))
       /\ n = CalDaysInMonth(y, m)
       /\ n \in 28..31
       /\ (m = 2 /\ LeapYear(y)) => n = 29

\* the MongoDB month report asked for the February of leap year 2024
WitnessLeapFebruary ==
  /\ req.op = "mongo.getReports" /\ req.arg = <<2024, 2>> /\ Accepted
  /\ Cardinality(MonthDaysCounted) = 29

(***************************************************************************)
(* C9 (as claimed): on a report with transactions the savings-rate rule    *)
(* emits at most one insight, picked from the current totals: critical     *)
(* when income - expense < 0; else caution when the savings rate           *)
(* (income - expense) / income * 100, 0 when income is 0, is below 10;     *)
(* else informational when the rate is above 30; else none.                *)
(***************************************************************************)
SavingsTitles == {"Spending Exceeds Income", "Low Savings Rate", "Excellent Savings Rate"}

SavingsInsights == SelectSeq(insights, LAMBDA i : i.title \in SavingsTitles)

SavingsRuleAsClaimed ==
  HasTransactions(reportData) =>
    LET totals == getTotals(reportData, reportType)
        savings == totals.income - totals.expense
        \* rate < 10 and rate > 30 without the division
        below10 == totals.income = 0 \/ savings * 100 < 10 * totals.income
        above30 == totals.income > 0 /\ savings * 100 > 30 * totals.income
        kinds == [i \in 1..Len(SavingsInsights) |-> SavingsInsights[i].type]
    IN kinds = IF savings < 0 THEN <<"danger">>
               ELSE IF below10 THEN <<"warning">>
               ELSE IF above30 THEN <<"success">>
               ELSE <<>>

(***************************************************************************)
(* C10: no period-over-period insight is among the insights while the      *)
(* previous-period report is null, has hasTransactions = false, or has an  *)
(* expense total of 0.                                                     *)
(***************************************************************************)
ChangeTitles == {"Spending Increased", "Spending Decreased"}

ChangeInsights == SelectSeq(insights, LAMBDA i : i.title \in ChangeTitles)

PreviousExpenseTotal ==
  IF "yearlyTotals" \in DOMAIN previousPeriodData THEN previousPeriodData.yearlyTotals.expense
  ELSE previousPeriodData.totals.expense

NoChangeInsightWithoutPreviousExpense ==
  (\/ previousPeriodData = Null
   \/ ~HasTransactions(previousPeriodData)
   \/ PreviousExpenseTotal = 0) => ChangeInsights = <<>>

\* both reports have transactions, the previous one income only, the
\* current one expenses: the change is not reported
WitnessPreviousWithoutExpense ==
  /\ HasTransactions(reportData)
  /\ HasTransactions(previousPeriodData)
  /\ PreviousExpenseTotal = 0
  /\ getPreviousTotals(previousPeriodData, reportType).income > 0
  /\ getTotals(reportData, reportType).expense > 0
  /\ insights # <<>>
  /\ ChangeInsights = <<>>

(***************************************************************************)
(* C11 (as claimed): with both reports holding transactions and a positive *)
(* previous expense total, the period-over-period insight is emitted       *)
(* exactly when |delta / previous expense * 100| > 10, delta being the     *)
(* current expense total minus the previous one; it is a warning when      *)
(* delta > 0 and a success otherwise.  Read once both fetches of a weekly, *)
(* monthly or yearly report have resolved.                                 *)
(***************************************************************************)
CurrentExpenseTotal ==
  IF "yearlyTotals" \in DOMAIN reportData THEN reportData.yearlyTotals.expense
  ELSE reportData.totals.expense

BothFetched ==
  /\ calls = {} /\ reportType # "custom"
  /\ HasTransactions(reportData) /\ HasTransactions(previousPeriodData)

ChangeInsightAboveTenPercent ==
  (BothFetched /\ PreviousExpenseTotal > 0) =>
    LET delta == CurrentExpenseTotal - PreviousExpenseTotal
        kinds == [i \in 1..Len(ChangeInsights) |-> ChangeInsights[i].type]
    IN kinds = IF Abs(delta) * 100 > 10 * PreviousExpenseTotal
               THEN << IF delta > 0 THEN "warning" ELSE "success" >>
               ELSE <<>>

(***************************************************************************)
(* C12 (as claimed): on a report with transactions the top-category        *)
(* insight is emitted exactly when the category breakdown is non-empty and *)
(* the expense total is above 0; it is about the first category, whose     *)
(* share is its amount / expense total, and carries the reduce-spending    *)
(* suggestion when the share is above 40% and the reassurance otherwise.   *)
(***************************************************************************)
TopInsights == SelectSeq(insights, LAMBDA i : i.title = "Highest Spending Category")

CurrentCategories ==
  IF "categoryBreakdown" \in DOMAIN reportData THEN reportData.categoryBreakdown
  ELSE IF "expensesByCategory" \in DOMAIN reportData THEN reportData.expensesByCategory
  ELSE <<>>

TopCategorySuggestionByShare ==
  (calls = {} /\ HasTransactions(reportData)) =>
    LET suggestions == [i \in 1..Len(TopInsights) |-> TopInsights[i].suggestion]
    IN suggestions =
         IF Len(CurrentCategories) > 0 /\ CurrentExpenseTotal > 0
         THEN << IF CurrentCategories[1].amount * 100 > 40 * CurrentExpenseTotal
                 THEN "Consider reviewing and reducing expenses in this category."
                 ELSE "This seems reasonable for your spending pattern." >>
         ELSE <<>>

(***************************************************************************)
(* C13: while the current report is absent or has hasTransactions = false, *)
(* the derived insight list is empty, whatever the previous-period report  *)
(* holds.                                                                  *)
(***************************************************************************)
NoInsightsWithoutCurrentReport ==
  (\/ reportData = Null
   \/ "hasTransactions" \notin DOMAIN reportData
   \/ ~reportData.hasTransactions) => insights = <<>>

\* the month fetched is empty while the month before has expenses
WitnessEmptyReportAfterSpending ==
  /\ calls = {}
  /\ reportData # Null /\ ~reportData.hasTransactions
  /\ HasTransactions(previousPeriodData) /\ PreviousExpenseTotal > 0
  /\ insights = <<>>

InvertedRange ==
  /\ reportType = "custom"
  /\ customStartDate # <<>> /\ customEndDate # <<>>
  /\ CalDay(customStartDate[1], customStartDate[2], customStartDate[3])
       > CalDay(customEndDate[1], customEndDate[2], customEndDate[3])

InvertedRangeRejected ==
  [][(InvertedRange /\ (GenerateCustomReport \/ TryAgain)) =>
       /\ error' /\ ~loading'
       /\ calls' = calls
       /\ reportData' = reportData
       /\ req' = req /\ resp' = resp]_vars

\* the form holds an inverted range, the error is up, the monthly report
\* fetched before is still there and nothing is in flight
WitnessInvertedRangeError ==
  /\ InvertedRange
  /\ error /\ ~loading /\ calls = {}
  /\ HasTransactions(reportData)
  /\ req.op # "reportsAPI.getCustomRangeReports"

(***************************************************************************)
(* C16 (as claimed): a period specifier that is given and is malformed - a *)
(* month not of the form YYYY-MM, a week not of the form YYYY-MM-DD -      *)
(* is answered with an error and no report; it is never replaced by a      *)
(* default period.                                                         *)
(***************************************************************************)
MalformedSpecifier ==
  /\ req.op \in MonthOps \cup WeekOps
  /\ req.arg # <<>>
  /\ IF req.op \in MonthOps THEN ~(Len(req.arg) = 2 /\ req.arg[1] \in 0..9999)
     ELSE ~(Len(req.arg) = 3 /\ req.arg[1] \in 0..9999)

MalformedSpecifierRejected == MalformedSpecifier => ~Accepted

(***************************************************************************)
(* C17 (as claimed): a failed store request behind a report is not issued  *)
(* again, sets the error state, and leaves the report data as it was: the  *)
(* failure is not turned into a report.                                    *)
(***************************************************************************)
StoreFailureSetsError ==
  [][\A c \in calls : FetchFailed(c) =>
       /\ calls' = calls \ {c}
       /\ error'
       /\ reportData' = reportData]_vars

(***************************************************************************)
(* C18: the period fetchPreviousPeriodData asks for is one unit before the *)
(* period it is called with: the week starting 7 days before the week's    *)
(* first day, the calendar month before the month (December of the year    *)
(* before for a January), the year before the year.                        *)
(***************************************************************************)
PeriodOfType(c) ==
  Len(c.currentPeriod) = (IF c.reportType = "weekly" THEN 3
                          ELSE IF c.reportType = "yearly" THEN 1 ELSE 2)

OneUnitEarlier(c, asked) ==
  LET p == c.currentPeriod
  IN IF c.reportType = "weekly"
     THEN /\ asked.op = "reportsAPI.getWeeklyReports"
          /\ Len(asked.arg) = 3
          /\ asked.arg[2] \in 1..12
          /\ asked.arg[3] \in 1..CalDaysInMonth(asked.arg[1], asked.arg[2])
          /\ CalDay(asked.arg[1], asked.arg[2], asked.arg[3]) = CalDay(p[1], p[2], p[3]) - 7
     ELSE IF c.reportType = "yearly"
     THEN asked.op = "reportsAPI.getMonthlyReports" /\ asked.arg = << p[1] - 1 >>
     ELSE /\ asked.op = "reportsAPI.getReports"
          /\ asked.arg = IF p[2] = 1 THEN << p[1] - 1, 12 >> ELSE << p[1], p[2] - 1 >>

PreviousPeriodOneUnitEarlier ==
  [][\A c \in calls :
       (FetchPreviousPeriodDataDone(c) /\ PeriodOfType(c)) => OneUnitEarlier(c, req')]_vars

\* the comparison report of January 2026 has been asked for December 2025
WitnessDecemberBeforeJanuary ==
  /\ reportType = "monthly" /\ currentPeriod = <<2026, 1>> /\ calls = {}
  /\ req = [op |-> "reportsAPI.getReports", arg |-> <<2025, 12>>]
  /\ previousPeriodData = resp.data

(***************************************************************************)
(* C19 (as claimed): once a custom-range report over [start, end] is on    *)
(* display, the comparison report is the aggregate of the window of the    *)
(* same number of days that ends the day before start.                     *)
(***************************************************************************)
CustomReportShown ==
  /\ reportType = "custom" /\ calls = {}
  /\ req.op = "reportsAPI.getCustomRangeReports"
  /\ reportData = resp.data

WindowBefore ==
  LET s == CalDay(req.start[1], req.start[2], req.start[3])
      e == CalDay(req.end[1], req.end[2], req.end[3])
  IN SelectSeq(store, LAMBDA t : s - (e - s + 1) <= t.date /\ t.date <= s - 1)

CustomPreviousIsWindowBefore ==
  CustomReportShown =>
    /\ previousPeriodData # Null
    /\ "totals" \in DOMAIN previousPeriodData
    /\ previousPeriodData.totals = [income |-> SumAmount(OfType(WindowBefore, "income")),
                                    expense |-> SumAmount(OfType(WindowBefore, "expense"))]
    /\ previousPeriodData.hasTransactions <=> (WindowBefore # <<>>)

(***************************************************************************)
(* C20 (as claimed): canNavigateNext is false whenever the period 'next'   *)
(* would move to starts after today, so the period of a weekly, monthly or *)
(* yearly report never starts in the future.                               *)
(***************************************************************************)
PeriodStart(type, period) ==
  IF type = "weekly" THEN CalDay(period[1], period[2], period[3])
  ELSE IF type = "yearly" THEN CalDay(period[1], 1, 1)
  ELSE CalDay(period[1], period[2], 1)

NavigablePeriod ==
  /\ reportType # "custom"
  /\ Len(currentPeriod) = (IF reportType = "weekly" THEN 3
                           ELSE IF reportType = "yearly" THEN 1 ELSE 2)

NextNeverEntersFuture ==
  NavigablePeriod =>
    /\ PeriodStart(reportType, currentPeriod) <= today
    /\ canNavigateNext(reportType, currentPeriod, today) =>
         PeriodStart(reportType, navigateTo(reportType, currentPeriod, "next")) <= today

(***************************************************************************)
(* C21 (as claimed): navigatePeriod moves the period by exactly one unit   *)
(* of the report type - 7 days, one calendar month with the year rolling   *)
(* over, one year - so that 'next' then 'prev' and 'prev' then 'next' come *)
(* back to the period, and a weekly period stays a Monday.                 *)
(***************************************************************************)
OneUnitLater(type, p, q) ==
  IF type = "weekly"
  THEN Len(q) = 3 /\ PeriodStart(type, q) = PeriodStart(type, p) + 7
  ELSE IF type = "yearly" THEN q = << p[1] + 1 >>
  ELSE q = IF p[2] = 12 THEN << p[1] + 1, 1 >> ELSE << p[1], p[2] + 1 >>

NavigationShiftsOneUnit ==
  NavigablePeriod =>
    LET forward == navigateTo(reportType, currentPeriod, "next")
        back == navigateTo(reportType, currentPeriod, "prev")
    IN /\ OneUnitLater(reportType, currentPeriod, forward)
       /\ OneUnitLater(reportType, back, currentPeriod)
       /\ navigateTo(reportType, forward, "prev") = currentPeriod
       /\ navigateTo(reportType, back, "next") = currentPeriod
       /\ reportType = "weekly" =>
            /\ IsMonday(PeriodStart(reportType, forward))
            /\ IsMonday(PeriodStart(reportType, back))

(***************************************************************************)
(* The transaction routes: POST, PUT and DELETE /api/transactions[/:id]    *)
(* in the MongoDB revision and in the MySQL revision of the controller     *)
(***************************************************************************)
Users == {"alice", "bob"}

BodyTypes == {"income", "expense", "Income", "transfer"}
BodyAmounts == {0 - 1, 0, 1}

\* type.toLowerCase().trim()
toLowerCase(type) == IF type = "Income" THEN "income" ELSE type

\* bodies carrying every field
FullBodies ==
  { [type |-> t, category |-> "Food", amount |-> a, date |-> AggToday] :
      t \in BodyTypes, a \in BodyAmounts }

\* PUT bodies may carry some of the fields only
PartialBodies ==
  { [amount |-> a] : a \in BodyAmounts } \cup { [type |-> t] : t \in BodyTypes }

\* the rows a request of `user` for `id` matches: { _id, userId } / WHERE id = ? AND user_id = ?
owned(st, id, user) == { i \in 1..Len(st) : st[i].id = id /\ st[i].userId = user }

\* the fields of `updates` replace those of the row
merged(row, updates) ==
  [f \in DOMAIN row |-> IF f \in DOMAIN updates THEN updates[f] ELSE row[f]]

setRows(st, hit, updates) ==
  [i \in 1..Len(st) |-> IF i \in hit THEN merged(st[i], updates) ELSE st[i]]

dropRows(st, id, user) == SelectSeq(st, LAMBDA t : ~(t.id = id /\ t.userId = user))

\* createTransaction (MongoDB): the checks before the document is built
mongo_createStatus(body) ==
  IF body.amount = 0 THEN 400                                  \* !amount
  ELSE IF toLowerCase(body.type) \notin Types THEN 400
  ELSE IF body.amount <= 0 THEN 400
  ELSE 201

mongo_createStore(st, id, user, body) ==
  IF mongo_createStatus(body) = 201
  THEN Append(st, [id |-> id, userId |-> user, type |-> toLowerCase(body.type),
                   category |-> body.category, amount |-> body.amount,
                   date |-> body.date])
  ELSE st

\* updateTransaction (MongoDB): `updates` holds the fields given, checked
mongo_updates(body) ==
  [f \in DOMAIN body |-> IF f = "type" THEN toLowerCase(body[f]) ELSE body[f]]

mongo_updateStatus(st, id, user, body) ==
  IF owned(st, id, user) = {} THEN 404
  ELSE IF "type" \in DOMAIN body /\ toLowerCase(body.type) \notin Types THEN 400
  ELSE IF "amount" \in DOMAIN body /\ body.amount <= 0 THEN 400
  ELSE 200

mongo_updateStore(st, id, user, body) ==
  IF mongo_updateStatus(st, id, user, body) = 200
  THEN setRows(st, owned(st, id, user), mongo_updates(body))
  ELSE st

\* deleteTransaction (MongoDB): findOneAndDelete({ _id, userId })
mongo_deleteStatus(st, id, user) == IF owned(st, id, user) = {} THEN 404 ELSE 200

\* addTransaction (MySQL): the body goes into the INSERT as it is.  The
\* table behind the type1 column is not part of the repository: a value
\* other than 'income' and 'expense' is either stored or refused by the
\* database, and the catch block then answers 500.
mysql_addOutcomes(body) == IF body.type \in Types THEN {201} ELSE {201, 500}

mysql_addStore(st, id, user, body, status) ==
  IF status = 201
  THEN Append(st, [id |-> id, userId |-> user, type |-> body.type,
                   category |-> body.category, amount |-> body.amount,
                   date |-> body.date])
  ELSE st

\* updateTransaction (MySQL): UPDATE ... WHERE id = ? AND user_id = ?, then
\* res.json(updatedTransaction[0]) whether or not a row was matched
mysql_updateOutcomes(body) == IF body.type \in Types THEN {200} ELSE {200, 500}

mysql_updateStore(st, id, user, body, status) ==
  IF status = 200
  THEN setRows(st, owned(st, id, user),
               [type |-> body.type, category |-> body.category,
                amount |-> body.amount, date |-> body.date])
  ELSE st

\* deleteTransaction (MySQL): DELETE ... WHERE id = ? AND user_id = ?, then
\* res.json({ message: 'Transaction deleted successfully' })
mysql_deleteStatus(st, id, user) == 200

pageVars == <<reportType, currentPeriod, calls, loading, error, customStartDate,
              customEndDate, reportData, previousPeriodData, insights>>

storeOther == <<today, utcOffset, weeklyQuery, pageVars, dashVars>>

\* ids the store has handed out
Ids == 1..(nextId - 1)

MongoCreateTransaction(user, body) ==
  /\ nextId <= MaxTx
  /\ req' = [op |-> "createTransaction", user |-> user, body |-> body]
  /\ resp' = [status |-> mongo_createStatus(body)]
  /\ store' = mongo_createStore(store, nextId, user, body)
  /\ nextId' = IF resp'.status = 201 THEN nextId + 1 ELSE nextId
  /\ UNCHANGED storeOther

MongoUpdateTransaction(user, id, body) ==
  /\ req' = [op |-> "updateTransaction", user |-> user, id |-> id, body |-> body]
  /\ resp' = [status |-> mongo_updateStatus(store, id, user, body)]
  /\ store' = mongo_updateStore(store, id, user, body)
  /\ UNCHANGED <<nextId, storeOther>>

MongoDeleteTransaction(user, id) ==
  /\ req' = [op |-> "deleteTransaction", user |-> user, id |-> id]
  /\ resp' = [status |-> mongo_deleteStatus(store, id, user)]
  /\ store' = dropRows(store, id, user)
  /\ UNCHANGED <<nextId, storeOther>>

MysqlAddTransaction(user, body) ==
  /\ nextId <= MaxTx
  /\ req' = [op |-> "createTransaction", user |-> user, body |-> body]
  /\ \E status \in mysql_addOutcomes(body) :
       /\ resp' = [status |-> status]
       /\ store' = mysql_addStore(store, nextId, user, body, status)
       /\ nextId' = IF status = 201 THEN nextId + 1 ELSE nextId
  /\ UNCHANGED storeOther

MysqlUpdateTransaction(user, id, body) ==
  /\ req' = [op |-> "updateTransaction", user |-> user, id |-> id, body |-> body]
  /\ \E status \in mysql_updateOutcomes(body) :
       /\ resp' = [status |-> status]
       /\ store' = mysql_updateStore(store, id, user, body, status)
  /\ UNCHANGED <<nextId, storeOther>>

MysqlDeleteTransaction(user, id) ==
  /\ req' = [op |-> "deleteTransaction", user |-> user, id |-> id]
  /\ resp' = [status |-> mysql_deleteStatus(store, id, user)]
  /\ store' = dropRows(store, id, user)
  /\ UNCHANGED <<nextId, storeOther>>

\* the weeks asked for: the week of the clock and the week before it
StoreWeeks == { <<2026, 1, 5>>, <<2025, 12, 29>> }

\* userId: ..., date: { $gte: weekStart, $lte: weekEnd }
weekRows(st, user, week) ==
  RowsBetween(Where(st, LAMBDA t : t.userId = user), ParseDate(week), ParseDate(week) + 6)

\* getWeeklyReports (MongoDB), up to its first await: countDocuments, and
\* the answer without transactions
WeeklyCountQuery(user, week) ==
  /\ weeklyQuery = Idle
  /\ IF Len(weekRows(store, user, week)) = 0
     THEN /\ req' = [op |-> "mongo.getWeeklyReports", arg |-> week, user |-> user]
          /\ resp' \in weekBody(week, ParseDate(week) + 6, <<>>)
          /\ UNCHANGED weeklyQuery
     ELSE /\ weeklyQuery' = [pc |-> "weeklyTotals", user |-> user, week |-> week]
          /\ UNCHANGED <<req, resp>>
  /\ UNCHANGED <<store, nextId, today, utcOffset, pageVars, dashVars>>

\* const weeklyTotals = await Transaction.aggregate([... $group: { _id: '$type' }])
WeeklyTotalsQuery ==
  /\ weeklyQuery.pc = "weeklyTotals"
  /\ weeklyQuery' =
       [pc |-> "expensesByCategory", user |-> weeklyQuery.user, week |-> weeklyQuery.week,
        weeklyTotals |-> TotalsByType(weekRows(store, weeklyQuery.user, weeklyQuery.week))]
  /\ UNCHANGED <<store, req, resp, nextId, today, utcOffset, pageVars, dashVars>>

\* const expensesByCategory = await Transaction.aggregate([... type: 'expense' ...])
WeeklyCategoriesQuery ==
  /\ weeklyQuery.pc = "expensesByCategory"
  /\ \E cats \in CategoryTotalsDesc(weekRows(store, weeklyQuery.user, weeklyQuery.week)) :
       weeklyQuery' =
         [pc |-> "dailyBreakdown", user |-> weeklyQuery.user, week |-> weeklyQuery.week,
          weeklyTotals |-> weeklyQuery.weeklyTotals, expensesByCategory |-> cats]
  /\ UNCHANGED <<store, req, resp, nextId, today, utcOffset, pageVars, dashVars>>

\* const dailyBreakdown = await Transaction.aggregate(...), the formatting
\* of the three results and res.json(responseData)
WeeklyDailyQuery ==
  /\ weeklyQuery.pc = "dailyBreakdown"
  /\ req' = [op |-> "mongo.getWeeklyReports", arg |-> weeklyQuery.week,
             user |-> weeklyQuery.user]
  /\ resp' = Ok([weekRange |-> [start |-> weeklyQuery.week,
                                end |-> ISODate(ParseDate(weeklyQuery.week) + 6)],
                 totals |-> WithZeroDefaults(weeklyQuery.weeklyTotals),
                 expensesByCategory |-> weeklyQuery.expensesByCategory,
                 dailyBreakdown |->
                   DailyRows(weekRows(store, weeklyQuery.user, weeklyQuery.week)),
                 hasTransactions |-> TRUE])
  /\ weeklyQuery' = Idle
  /\ UNCHANGED <<store, nextId, today, utcOffset, pageVars, dashVars>>

InitStore ==
  /\ store = <<>>
  /\ today = AggToday
  /\ utcOffset = 0
  /\ InitReports

NextMongoStore ==
  \/ \E user \in Users, body \in FullBodies : MongoCreateTransaction(user, body)
  \/ \E user \in Users, id \in Ids, body \in FullBodies \cup PartialBodies :
       MongoUpdateTransaction(user, id, body)
  \/ \E user \in Users, id \in Ids : MongoDeleteTransaction(user, id)
  \/ \E user \in Users, week \in StoreWeeks : WeeklyCountQuery(user, week)
  \/ WeeklyTotalsQuery
  \/ WeeklyCategoriesQuery
  \/ WeeklyDailyQuery

NextMysqlStore ==
  \/ \E user \in Users, body \in FullBodies : MysqlAddTransaction(user, body)
  \/ \E user \in Users, id \in Ids, body \in FullBodies :
       MysqlUpdateTransaction(user, id, body)
  \/ \E user \in Users, id \in Ids : MysqlDeleteTransaction(user, id)

SpecMongoStore == InitStore /\ [][NextMongoStore]_vars

SpecMysqlStore == InitStore /\ [][NextMysqlStore]_vars

(***************************************************************************)
(* C22 (as claimed): whatever create and update requests were served,      *)
(* every transaction in the store has a positive amount and the type       *)
(* income or expense, and a request that would store anything else is      *)
(* answered with 400 and leaves the store as it was.                       *)
(***************************************************************************)
ValidTransaction(t) == t.amount > 0 /\ t.type \in Types

\* the values a body would put into a row do not make a valid transaction
BodyViolates(body) ==
  \/ "amount" \in DOMAIN body /\ body.amount <= 0
  \/ "type" \in DOMAIN body /\ toLowerCase(body.type) \notin Types

\* a create, or an update of a transaction of the requester, with such a body
ViolatingRequest(r, st) ==
  \/ r.op = "createTransaction" /\ BodyViolates(r.body)
  \/ r.op = "updateTransaction" /\ owned(st, r.id, r.user) # {} /\ BodyViolates(r.body)

StoredTransactionsValid ==
  [][ /\ \A i \in 1..Len(store') : ValidTransaction(store'[i])
      /\ ViolatingRequest(req', store) => (resp'.status = 400 /\ store' = store) ]_vars

(***************************************************************************)
(* C23 (as claimed): no request changes the owner of a transaction, and    *)
(* an update or delete by a user who does not own the transaction leaves   *)
(* the store unchanged and is answered with 404.                           *)
(***************************************************************************)
OwnerOf(st, id) == { st[i].userId : i \in { k \in 1..Len(st) : st[k].id = id } }

\* an update or delete aimed at a transaction of somebody else
ForeignRequest(r, st) ==
  /\ r.op \in {"updateTransaction", "deleteTransaction"}
  /\ OwnerOf(st, r.id) # {}
  /\ r.user \notin OwnerOf(st, r.id)

OwnerImmutableAndForeignRefused ==
  [][ /\ \A id \in Ids : OwnerOf(store', id) \subseteq OwnerOf(store, id)
      /\ ForeignRequest(req', store) => (resp'.status = 404 /\ store' = store) ]_vars

(***************************************************************************)
(* C24 (as claimed): a weekly report is computed from one snapshot of the  *)
(* user's transactions: whatever creates, updates and deletes are served   *)
(* between its queries, hasTransactions = true comes with a non-zero       *)
(* total, the category amounts add up to the expense total and the daily   *)
(* breakdown adds up to both totals.                                       *)
(***************************************************************************)
WeeklyAnswer == resp.body.data

WeeklyReportFromOneSnapshot ==
  (req.op = "mongo.getWeeklyReports" /\ resp.status = 200) =>
    /\ WeeklyAnswer.hasTransactions =>
         WeeklyAnswer.totals.income + WeeklyAnswer.totals.expense > 0
    /\ SumField(WeeklyAnswer.expensesByCategory, "amount") = WeeklyAnswer.totals.expense
    /\ SumField(WeeklyAnswer.dailyBreakdown, "income") = WeeklyAnswer.totals.income
    /\ SumField(WeeklyAnswer.dailyBreakdown, "expense") = WeeklyAnswer.totals.expense

(***************************************************************************)
(* C25 (as claimed): once no fetch is outstanding, the report on display   *)
(* is the report of the selected report type and period, whatever the      *)
(* order in which the fetches resolved.                                    *)
(***************************************************************************)
\* the page is at rest and shows a report or the no-transactions view
AtRest ==
  /\ calls = {}
  /\ ~loading /\ ~error
  /\ currentPeriod # <<>>
  /\ reportType # "custom"

SelectedReport == reportOf(reportType, currentPeriod, getTransactions(store), today).data

ReportShownIsSelected == AtRest => reportData = SelectedReport

(***************************************************************************)
(* C26 (as claimed): every fetch pairs the report type with a period in    *)
(* the format of that type: a Monday YYYY-MM-DD for weekly, YYYY for       *)
(* yearly, YYYY-MM for monthly.                                            *)
(***************************************************************************)
PeriodFitsType(type, period) ==
  IF type = "weekly"
  THEN Len(period) = 3 /\ IsValidDate(period) /\ IsMonday(PeriodStart(type, period))
  ELSE IF type = "yearly" THEN Len(period) = 1
  ELSE Len(period) = 2

FetchPairsTypeWithItsPeriod ==
  \A c \in calls : c.reportType # "custom" => PeriodFitsType(c.reportType, c.currentPeriod)

(***************************************************************************)
(* C27 (as claimed): when a fetchReports call resolves and the page goes   *)
(* on to show insights with a comparison report, the comparison report is  *)
(* the report of the period before the one just fetched.                   *)
(***************************************************************************)
InsightsCompare(data, previous) ==
  HasTransactions(data) /\ previous # Null /\ ~loading' /\ ~error'

PrecedingReport(c) ==
  reportOf(c.reportType, previousPeriodOf(c.reportType, c.currentPeriod),
           getTransactions(store), today).data

ComparisonIsPrecedingPeriod ==
  [][\A c \in calls :
       (FetchReportsDone(c) /\ c.reportType # "custom"
          /\ InsightsCompare(reportData', previousPeriodData'))
         => previousPeriodData' = PrecedingReport(c)]_vars

(***************************************************************************)
(* C28 (as claimed): loading is true for as long as a fetchReports call    *)
(* is in flight.                                                           *)
(***************************************************************************)
FetchReportsInFlight == \E c \in calls : c.fn = "fetchReports"

LoadingWhileFetching == FetchReportsInFlight => loading

(***************************************************************************)
(* The Dashboard pages: the basic one, which patches its list from the     *)
(* response of a delete or an update, and the filtering one, which         *)
(* fetches the list again and re-applies the filters.  Requests succeed    *)
(* unless the server refuses them.                                         *)
(***************************************************************************)
MaxInFlight == 2     \* handler calls waiting for a response at one time

DashUser == "alice"

\* what the user has recorded before the page is opened
DashStore ==
  << [id |-> 1, userId |-> DashUser, type |-> "expense", category |-> "Food",
      amount |-> 80, date |-> AggToday],
     [id |-> 2, userId |-> DashUser, type |-> "income", category |-> "Salary",
      amount |-> 100, date |-> AggToday - 1] >>

EditAmounts == {5}

\* transactionsData.map(transaction => ({ ...transaction, amount: parseFloat(...) || 0,
\* type: (transaction.type || 'expense').toLowerCase().trim(), ... }))
normalizedTransactions(rows) ==
  [i \in 1..Len(rows) |-> [rows[i] EXCEPT !.type = toLowerCase(@)]]

\* GET /api/transactions of the user, normalised
listOf(st) ==
  normalizedTransactions(getTransactions(Where(st, LAMBDA t : t.userId = DashUser)))

ShownIds(list) == { list[i].id : i \in 1..Len(list) }

formOf(transaction) ==
  [type |-> transaction.type, category |-> transaction.category,
   amount |-> transaction.amount, date |-> transaction.date]

dashOther == <<today, utcOffset, nextId, weeklyQuery, pageVars>>

\* useEffect(() => { fetchTransactions(); }, [])
BasicMount ==
  /\ req = NoRequest /\ handlers = {}
  /\ handlers' = {[fn |-> "fetchTransactions"]}
  /\ UNCHANGED <<store, req, resp, dashboardTransactions, allTransactions,
                 displayTransactions, activeFilters, editingTransaction, editFormData,
                 dashOther>>

\* fetchTransactions: the response arrives, setTransactions(normalizedTransactions)
FetchTransactionsDone(h) ==
  /\ h \in handlers /\ h.fn = "fetchTransactions"
  /\ req' = [op |-> "getTransactions", user |-> DashUser]
  /\ resp' = [status |-> 200]
  /\ dashboardTransactions' = listOf(store)
  /\ handlers' = handlers \ {h}
  /\ UNCHANGED <<store, allTransactions, displayTransactions, activeFilters,
                 editingTransaction, editFormData, dashOther>>

\* handleDelete(id) of the basic Dashboard, up to await transactionsAPI.delete(id):
\* the call keeps the `transactions` of the render it was made in
BasicHandleDelete(id) ==
  /\ id \in ShownIds(dashboardTransactions)
  /\ Cardinality(handlers) < MaxInFlight
  /\ handlers' = handlers \cup
       {[fn |-> "handleDelete", id |-> id, transactions |-> dashboardTransactions]}
  /\ UNCHANGED <<store, req, resp, dashboardTransactions, allTransactions,
                 displayTransactions, activeFilters, editingTransaction, editFormData,
                 dashOther>>

\* the DELETE is served (MySQL controller) and handleDelete goes on:
\* setTransactions(transactions.filter(t => t.id !== id))
BasicHandleDeleteDone(h) ==
  /\ h \in handlers /\ h.fn = "handleDelete"
  /\ req' = [op |-> "deleteTransaction", user |-> DashUser, id |-> h.id]
  /\ resp' = [status |-> mysql_deleteStatus(store, h.id, DashUser)]
  /\ store' = dropRows(store, h.id, DashUser)
  /\ dashboardTransactions' = SelectSeq(h.transactions, LAMBDA t : t.id # h.id)
  /\ handlers' = handlers \ {h}
  /\ UNCHANGED <<allTransactions, displayTransactions, activeFilters,
                 editingTransaction, editFormData, dashOther>>

\* handleEdit(transaction)
BasicHandleEdit(i) ==
  /\ i \in 1..Len(dashboardTransactions)
  /\ editingTransaction = NotEditing
  /\ editingTransaction' = dashboardTransactions[i].id
  /\ editFormData' = formOf(dashboardTransactions[i])
  /\ UNCHANGED <<store, req, resp, dashboardTransactions, allTransactions,
                 displayTransactions, activeFilters, handlers, dashOther>>

\* handleEditChange on the amount field
HandleEditChange(value) ==
  /\ editingTransaction # NotEditing
  /\ editFormData.amount # value
  /\ editFormData' = [editFormData EXCEPT !.amount = value]
  /\ UNCHANGED <<store, req, resp, dashboardTransactions, allTransactions,
                 displayTransactions, activeFilters, editingTransaction, handlers,
                 dashOther>>

\* handleEditCancel
HandleEditCancel ==
  /\ editingTransaction # NotEditing
  /\ editingTransaction' = NotEditing
  /\ editFormData' = NoTransaction
  /\ UNCHANGED <<store, req, resp, dashboardTransactions, allTransactions,
                 displayTransactions, activeFilters, handlers, dashOther>>

\* handleEditSubmit of the basic Dashboard, up to await transactionsAPI.update(...)
BasicHandleEditSubmit ==
  /\ editingTransaction # NotEditing
  /\ Cardinality(handlers) < MaxInFlight
  /\ handlers' = handlers \cup
       {[fn |-> "handleEditSubmit", id |-> editingTransaction, data |-> editFormData,
         transactions |-> dashboardTransactions]}
  /\ UNCHANGED <<store, req, resp, dashboardTransactions, allTransactions,
                 displayTransactions, activeFilters, editingTransaction, editFormData,
                 dashOther>>

\* transactions.map(t => t.id === editingTransaction ? updatedTransaction : t)
patched(list, id, updated) ==
  [i \in 1..Len(list) |-> IF list[i].id = id THEN updated ELSE list[i]]

\* the PUT is served (MySQL controller).  With the row gone response.data is
\* undefined, reading response.data.amount throws and the catch block runs;
\* otherwise the row of the response replaces that of the kept list.
BasicHandleEditSubmitDone(h) ==
  LET hit == owned(store, h.id, DashUser)
      after == mysql_updateStore(store, h.id, DashUser, h.data, 200)
  IN /\ h \in handlers /\ h.fn = "handleEditSubmit"
     /\ req' = [op |-> "updateTransaction", user |-> DashUser, id |-> h.id, body |-> h.data]
     /\ resp' = [status |-> 200]
     /\ store' = after
     /\ handlers' = handlers \ {h}
     /\ IF hit = {}
        THEN UNCHANGED <<dashboardTransactions, editingTransaction, editFormData>>
        ELSE /\ dashboardTransactions' =
                  patched(h.transactions, h.id,
                          normalizedTransactions(<<after[CHOOSE i \in hit : TRUE]>>)[1])
             /\ editingTransaction' = NotEditing
             /\ editFormData' = NoTransaction
     /\ UNCHANGED <<allTransactions, displayTransactions, activeFilters, dashOther>>

InitDashboardPage ==
  /\ store = DashStore
  /\ today = AggToday
  /\ utcOffset = 0
  /\ req = NoRequest
  /\ resp = NoResponse
  /\ reportType = "monthly"
  /\ currentPeriod = <<>>
  /\ calls = {}
  /\ loading = TRUE
  /\ error = FALSE
  /\ customStartDate = <<>>
  /\ customEndDate = <<>>
  /\ reportData = Null
  /\ previousPeriodData = Null
  /\ insights = <<>>
  /\ nextId = 3
  /\ weeklyQuery = Idle
  /\ InitDashboard

NextBasicDashboard ==
  \/ BasicMount
  \/ \E h \in handlers : FetchTransactionsDone(h)
  \/ \E id \in ShownIds(dashboardTransactions) : BasicHandleDelete(id)
  \/ \E h \in handlers : BasicHandleDeleteDone(h)
  \/ \E i \in 1..Len(dashboardTransactions) : BasicHandleEdit(i)
  \/ \E value \in EditAmounts : HandleEditChange(value)
  \/ HandleEditCancel
  \/ BasicHandleEditSubmit
  \/ \E h \in handlers : BasicHandleEditSubmitDone(h)

SpecBasicDashboard == InitDashboardPage /\ [][NextBasicDashboard]_vars

(***************************************************************************)
(* The filtering Dashboard (MongoDB controller behind it)                  *)
(***************************************************************************)
\* what the filter panel hands to handleFilterChange
FilterChoices == { {<<"type", "expense">>}, {<<"type", "">>} }

filterValue(filters, key, default) ==
  IF \E p \in filters : p[1] = key THEN (CHOOSE p \in filters : p[1] = key)[2] ELSE default

\* applyFilters, for the type: if (filters.type && filters.type !== transaction.type) return false
applyFilters(list, filters) ==
  SelectSeq(list, LAMBDA t : filterValue(filters, "type", "") \in {"", t.type})

\* Object.values(newFilters).some(value => value !== undefined && value !== null && value !== '' ...)
hasActiveFilters(filters) == \E p \in filters : p[2] # ""

\* what handleFilterChange puts on display
filteredFrom(list, filters) ==
  IF hasActiveFilters(filters) THEN applyFilters(list, filters) ELSE list

\* useEffect(() => { if (authChecked && isAuthenticated) fetchAllTransactions(); })
FilterMount ==
  /\ req = NoRequest /\ handlers = {}
  /\ handlers' = {[fn |-> "fetchAllTransactions"]}
  /\ UNCHANGED <<store, req, resp, dashboardTransactions, allTransactions,
                 displayTransactions, activeFilters, editingTransaction, editFormData,
                 dashOther>>

\* fetchAllTransactions: setAllTransactions and setDisplayTransactions
FetchAllTransactionsDone(h) ==
  /\ h \in handlers /\ h.fn = "fetchAllTransactions"
  /\ req' = [op |-> "getTransactions", user |-> DashUser]
  /\ resp' = [status |-> 200]
  /\ allTransactions' = listOf(store)
  /\ displayTransactions' = listOf(store)
  /\ handlers' = handlers \ {h}
  /\ UNCHANGED <<store, dashboardTransactions, activeFilters, editingTransaction,
                 editFormData, dashOther>>

\* handleFilterChange(newFilters), called by the filter panel
HandleFilterChange(newFilters) ==
  /\ req # NoRequest
  /\ newFilters # activeFilters
  /\ activeFilters' = newFilters
  /\ displayTransactions' = filteredFrom(allTransactions, newFilters)
  /\ UNCHANGED <<store, req, resp, dashboardTransactions, allTransactions,
                 editingTransaction, editFormData, handlers, dashOther>>

\* handleDelete(id) of the filtering Dashboard, up to await transactionsAPI.delete(id):
\* the call keeps activeFilters and handleFilterChange of the render it was
\* made in, and with handleFilterChange the allTransactions of that render
FilterHandleDelete(id) ==
  /\ id \in ShownIds(displayTransactions)
  /\ Cardinality(handlers) < MaxInFlight
  /\ handlers' = handlers \cup
       {[fn |-> "handleDelete", pc |-> "request", id |-> id,
         allTransactions |-> allTransactions, activeFilters |-> activeFilters]}
  /\ UNCHANGED <<store, req, resp, dashboardTransactions, allTransactions,
                 displayTransactions, activeFilters, editingTransaction, editFormData,
                 dashOther>>

\* a handler goes on to await fetchAllTransactions(), or ends in its catch block
afterRequest(h, status) ==
  IF status = 200 THEN (handlers \ {h}) \cup {[h EXCEPT !.pc = "fetchAllTransactions"]}
  ELSE handlers \ {h}

\* the DELETE is served
FilterDeleteServed(h) ==
  /\ h \in handlers /\ h.fn = "handleDelete" /\ h.pc = "request"
  /\ req' = [op |-> "deleteTransaction", user |-> DashUser, id |-> h.id]
  /\ resp' = [status |-> mongo_deleteStatus(store, h.id, DashUser)]
  /\ store' = dropRows(store, h.id, DashUser)
  /\ handlers' = afterRequest(h, resp'.status)
  /\ UNCHANGED <<dashboardTransactions, allTransactions, displayTransactions,
                 activeFilters, editingTransaction, editFormData, dashOther>>

\* handleEdit(transaction)
FilterHandleEdit(i) ==
  /\ i \in 1..Len(displayTransactions)
  /\ editingTransaction = NotEditing
  /\ editingTransaction' = displayTransactions[i].id
  /\ editFormData' = formOf(displayTransactions[i])
  /\ UNCHANGED <<store, req, resp, dashboardTransactions, allTransactions,
                 displayTransactions, activeFilters, handlers, dashOther>>

\* handleEditSubmit of the filtering Dashboard, up to await transactionsAPI.update(...)
FilterHandleEditSubmit ==
  /\ editingTransaction # NotEditing
  /\ Cardinality(handlers) < MaxInFlight
  /\ handlers' = handlers \cup
       {[fn |-> "handleEditSubmit", pc |-> "request", id |-> editingTransaction,
         data |-> editFormData, allTransactions |-> allTransactions,
         activeFilters |-> activeFilters]}
  /\ UNCHANGED <<store, req, resp, dashboardTransactions, allTransactions,
                 displayTransactions, activeFilters, editingTransaction, editFormData,
                 dashOther>>

\* the PUT is served
FilterUpdateServed(h) ==
  /\ h \in handlers /\ h.fn = "handleEditSubmit" /\ h.pc = "request"
  /\ req' = [op |-> "updateTransaction", user |-> DashUser, id |-> h.id, body |-> h.data]
  /\ resp' = [status |-> mongo_updateStatus(store, h.id, DashUser, h.data)]
  /\ store' = mongo_updateStore(store, h.id, DashUser, h.data)
  /\ handlers' = afterRequest(h, resp'.status)
  /\ UNCHANGED <<dashboardTransactions, allTransactions, displayTransactions,
                 activeFilters, editingTransaction, editFormData, dashOther>>

\* await fetchAllTransactions() resolves, and the handler goes on:
\* if (Object.keys(activeFilters).length > 0) handleFilterChange(activeFilters),
\* and after an edit setEditingTransaction(null), setEditFormData({})
Refetched(h) ==
  /\ h \in handlers /\ h.fn \in {"handleDelete", "handleEditSubmit"}
  /\ h.pc = "fetchAllTransactions"
  /\ req' = [op |-> "getTransactions", user |-> DashUser]
  /\ resp' = [status |-> 200]
  /\ allTransactions' = listOf(store)
  /\ IF h.activeFilters # {}
     THEN /\ activeFilters' = h.activeFilters
          /\ displayTransactions' = filteredFrom(h.allTransactions, h.activeFilters)
     ELSE /\ displayTransactions' = listOf(store)
          /\ UNCHANGED activeFilters
  /\ IF h.fn = "handleEditSubmit"
     THEN editingTransaction' = NotEditing /\ editFormData' = NoTransaction
     ELSE UNCHANGED <<editingTransaction, editFormData>>
  /\ handlers' = handlers \ {h}
  /\ UNCHANGED <<store, dashboardTransactions, dashOther>>

NextFilterDashboard ==
  \/ FilterMount
  \/ \E h \in handlers : FetchAllTransactionsDone(h)
  \/ \E newFilters \in FilterChoices : HandleFilterChange(newFilters)
  \/ \E id \in ShownIds(displayTransactions) : FilterHandleDelete(id)
  \/ \E h \in handlers : FilterDeleteServed(h)
  \/ \E i \in 1..Len(displayTransactions) : FilterHandleEdit(i)
  \/ \E value \in EditAmounts : HandleEditChange(value)
  \/ HandleEditCancel
  \/ FilterHandleEditSubmit
  \/ \E h \in handlers : FilterUpdateServed(h)
  \/ \E h \in handlers : Refetched(h)

SpecFilterDashboard == InitDashboardPage /\ [][NextFilterDashboard]_vars

(***************************************************************************)
(* C29 (as claimed): when a delete or an edit made with filters active     *)
(* has completed, the list on display is the active filters applied to     *)
(* the list just fetched.                                                  *)
(***************************************************************************)
FilteredListIsFresh ==
  [][\A h \in handlers :
       (Refetched(h) /\ hasActiveFilters(h.activeFilters) /\ h.activeFilters = activeFilters)
         => displayTransactions' = applyFilters(allTransactions', activeFilters')]_vars

(***************************************************************************)
(* C30 (as claimed): once the deletes and edits in flight have completed,  *)
(* the list of the basic Dashboard holds the transactions of the store,    *)
(* as they are in the store: a deleted transaction is not on it.           *)
(***************************************************************************)
RowsOn(list) == { list[i] : i \in 1..Len(list) }

ListReflectsEveryOperation ==
  (handlers = {} /\ req # NoRequest) =>
    RowsOn(dashboardTransactions) = RowsOn(listOf(store))

====
